---- MODULE Spec2Model ----
(***************************************************************************)
(* Register shadow and mode state machine of the nRF24L01 driver           *)
(* (circuitpython_nrf24l01/rf24.py, class RF24).                           *)
(*                                                                         *)
(* The host side (drv, ce) is translated from the driver's code.  The      *)
(* radio itself (dev) is the environment: it stores what is written to     *)
(* its registers, keeps two 3-level FIFOs, and answers every bus           *)
(* transaction with its STATUS byte, shifted out while the command byte    *)
(* is shifted in (so the status is the one BEFORE the command acts).       *)
(***************************************************************************)
EXTENDS Integers, Sequences, FiniteSets, TLC

VARIABLES
    phase,   \* "new" before RF24(...), "ready" after it, "failed" if it raised
    drv,     \* the RF24 object's attributes (the register shadow)
    ce,      \* level of the chip-enable pin (self.ce.value)
    dev,     \* the radio: registers, status flags, FIFOs
    log,     \* the bus transactions of the operation that ran last
    last,    \* which operation ran last, its arguments, and what held before it
    pc,      \* "idle"; inside the blocking send: "pulse" (its 1 ms sleep), "polling"
    snd,     \* the locals of the blocking send while it is running
    opened   \* the address last given to open_rx_pipe for pipe 0, None before

vars == <<phase, drv, ce, dev, log, last, pc, snd, opened>>

\* Python's None, and a value that is not None, for an optional value
None == <<>>
Some(x) == <<x>>

-----------------------------------------------------------------------------
(* Python's integer operators on byte-sized values *)

\* bit i of x, where w = 2^i
Bit(x, w) == (x \div w) % 2

\* a & b
And(a, b) ==
    Bit(a, 1) * Bit(b, 1) + 2 * Bit(a, 2) * Bit(b, 2)
    + 4 * Bit(a, 4) * Bit(b, 4) + 8 * Bit(a, 8) * Bit(b, 8)
    + 16 * Bit(a, 16) * Bit(b, 16) + 32 * Bit(a, 32) * Bit(b, 32)
    + 64 * Bit(a, 64) * Bit(b, 64) + 128 * Bit(a, 128) * Bit(b, 128)
\* a | b
Or(a, b) == a + b - And(a, b)
\* x & ~m for byte-sized x
AndNot(x, m) == x - And(x, m)
Shl(a, n) == a * (2 ^ n)
Shr(a, n) == a \div (2 ^ n)
\* int(b) for a Python bool
B2I(b) == IF b THEN 1 ELSE 0
\* `not x` for a Python int, as the int a bool is
PyNot(x) == IF x = 0 THEN 1 ELSE 0

-----------------------------------------------------------------------------
(* Register addresses and command opcodes used by the driver *)

CONFIG == 0
EN_AA == 1
EN_RXADDR == 2
SETUP_AW == 3
SETUP_RETR == 4
RF_CH == 5
RF_SETUP == 6
STATUS == 7
RX_ADDR_P0 == 10
TX_ADDR == 16
RX_PW_P0 == 17
FIFO_STATUS == 23
DYNPD == 28
FEATURE == 29

R_RX_PL_WID == 96
R_RX_PAYLOAD == 97
W_TX_PAYLOAD == 160
W_ACK_PAYLOAD == 168
W_TX_PAYLOAD_NO_ACK == 176
FLUSH_TX == 225
FLUSH_RX == 226
REUSE_TX_PL == 227
NOP == 255

\* the one-byte registers the radio stores
ByteRegs ==
    {CONFIG, EN_AA, EN_RXADDR, SETUP_AW, SETUP_RETR, RF_CH, RF_SETUP, DYNPD, FEATURE}
    \cup ((RX_ADDR_P0 + 2)..(RX_ADDR_P0 + 5)) \cup (RX_PW_P0..(RX_PW_P0 + 5))

\* the address registers the radio stores whole: the RX addresses of pipes 0
\* and 1 and the TX address, AddrWidth bytes each, the first byte written
\* being the least significant
AddrRegs == {RX_ADDR_P0, RX_ADDR_P0 + 1, TX_ADDR}
AddrWidth == 5

\* depth of each of the radio's FIFOs
FifoDepth == 3

-----------------------------------------------------------------------------
(* The radio *)

\* STATUS: bits 6..4 the three flags, bits 3..1 the pipe of the top RX payload
\* (7: RX FIFO empty), bit 0 TX FIFO full.  A radio that is not there leaves
\* the data line low: every byte reads 0.
DevStatus(d) ==
    IF ~d.present THEN 0
    ELSE d.flags
         + 2 * (IF d.rx = <<>> THEN 7 ELSE Head(d.rx).pipe)
         + (IF Len(d.tx) = FifoDepth THEN 1 ELSE 0)

\* FIFO_STATUS: bit 6 TX_REUSE, bit 5 TX_FULL, bit 4 TX_EMPTY, bit 1 RX_FULL,
\* bit 0 RX_EMPTY
DevFifoStatus(d) ==
    (IF d.reuse THEN 64 ELSE 0)
    + (IF Len(d.tx) = FifoDepth THEN 32 ELSE 0)
    + (IF d.tx = <<>> THEN 16 ELSE 0)
    + (IF Len(d.rx) = FifoDepth THEN 2 ELSE 0)
    + (IF d.rx = <<>> THEN 1 ELSE 0)

\* n bytes of a payload: its bytes, then zeros
PadTo(data, n) == [i \in 1..n |-> IF i <= Len(data) THEN data[i] ELSE 0]

\* The bytes the radio shifts out after the status byte, for command byte
\* `opcode` and `n` bytes clocked.
DevOut(d, opcode, n) ==
    IF ~d.present THEN [i \in 1..n |-> 0]
    ELSE IF opcode \in ByteRegs THEN [i \in 1..n |-> d.reg[opcode]]
    ELSE IF opcode \in AddrRegs
        THEN [i \in 1..n |-> IF i <= AddrWidth THEN d.addr[opcode][i] ELSE 0]
    ELSE IF opcode = STATUS THEN [i \in 1..n |-> DevStatus(d)]
    ELSE IF opcode = FIFO_STATUS THEN [i \in 1..n |-> DevFifoStatus(d)]
    ELSE IF opcode = R_RX_PL_WID
        THEN [i \in 1..n |-> IF d.rx = <<>> THEN 0 ELSE Len(Head(d.rx).data)]
    ELSE IF opcode = R_RX_PAYLOAD
        THEN PadTo(IF d.rx = <<>> THEN <<>> ELSE Head(d.rx).data, n)
    ELSE [i \in 1..n |-> 0]

\* The radio after command byte `opcode` followed by the bytes `data`
\* (`n` bytes clocked in all after the command byte).
DevExec(d, opcode, data, n) ==
    IF ~d.present THEN d
    ELSE IF opcode = 32 + STATUS /\ data # <<>>
        \* the flags are cleared by writing 1 to them
        THEN [d EXCEPT !.flags = AndNot(@, And(data[1], 112))]
    ELSE IF opcode >= 32 /\ opcode < 64 /\ (opcode - 32) \in ByteRegs /\ data # <<>>
        THEN [d EXCEPT !.reg[opcode - 32] = data[1]]
    ELSE IF opcode >= 32 /\ opcode < 64 /\ (opcode - 32) \in AddrRegs
        \* the bytes clocked in replace the low bytes, the others stay
        THEN [d EXCEPT !.addr[opcode - 32] =
                  [i \in 1..AddrWidth |-> IF i <= Len(data) THEN data[i] ELSE @[i]]]
    ELSE IF opcode = FLUSH_TX
        THEN [d EXCEPT !.tx = <<>>, !.reuse = FALSE, !.busy = FALSE]
    ELSE IF opcode = FLUSH_RX THEN [d EXCEPT !.rx = <<>>]
    ELSE IF opcode = REUSE_TX_PL THEN [d EXCEPT !.reuse = TRUE]
    ELSE IF opcode = R_RX_PAYLOAD /\ n > 0 /\ d.rx # <<>>
        THEN [d EXCEPT !.rx = Tail(@)]
    ELSE IF opcode \in {W_TX_PAYLOAD, W_TX_PAYLOAD_NO_ACK}
        THEN IF data # <<>> /\ Len(d.tx) < FifoDepth
             THEN [d EXCEPT !.tx = Append(@, [kind |-> opcode, pipe |-> 0,
                                              data |-> data]),
                            !.reuse = FALSE]
             ELSE d
    ELSE IF opcode >= W_ACK_PAYLOAD /\ opcode <= W_ACK_PAYLOAD + 5
        THEN IF data # <<>> /\ Len(d.tx) < FifoDepth
             THEN [d EXCEPT !.tx = Append(@, [kind |-> W_ACK_PAYLOAD,
                                              pipe |-> opcode - W_ACK_PAYLOAD,
                                              data |-> data])]
             ELSE d
    ELSE d

\* Pipe p takes payloads of any length: dynamic payload length is enabled in
\* FEATURE and for the pipe in DYNPD
DevDynamic(d, p) == And(d.reg[FEATURE], 4) # 0 /\ And(d.reg[DYNPD], Shl(1, p)) # 0

\* The radio is listening on pipe p: powered up in the RX role with the
\* enable pin high, the pipe enabled, and room in the RX FIFO
DevListening(d, level, p) ==
    /\ d.present /\ level /\ And(d.reg[CONFIG], 3) = 3
    /\ And(d.reg[EN_RXADDR], Shl(1, p)) # 0
    /\ Len(d.rx) < FifoDepth

\* A payload arrives on pipe p and raises RX_DR
DevReceive(d, p, data) ==
    [d EXCEPT !.rx = Append(@, [pipe |-> p, data |-> data]), !.flags = Or(@, 64)]

\* The top TX payload goes out as a packet that asks for an acknowledgment
DevNeedsAck(d) ==
    Head(d.tx).kind # W_TX_PAYLOAD_NO_ACK /\ And(d.reg[EN_AA], 1) = 1

\* A transmission ends.  sent: the packet went out (and was acknowledged if it
\* asked for that): TX_DS is raised and the payload leaves the TX FIFO unless
\* it is marked for reuse; an ACK payload `ackpl`, if one came, enters the RX
\* FIFO on pipe 0 and raises RX_DR.  Not sent: every retry went unanswered
\* and MAX_RT is raised, the payload stays.  With the enable pin still high
\* the radio goes on with the next payload.
DevComplete(d, level, sent, ackpl) ==
    IF sent
    THEN LET tx2 == IF d.reuse THEN d.tx ELSE Tail(d.tx)
             got == ackpl # None /\ Len(d.rx) < FifoDepth
         IN  [d EXCEPT !.flags = Or(Or(@, 32), IF got THEN 64 ELSE 0),
                       !.tx = tx2,
                       !.rx = IF got THEN Append(@, [pipe |-> 0, data |-> ackpl[1]])
                              ELSE @,
                       !.busy = level /\ tx2 # <<>>]
    ELSE [d EXCEPT !.flags = Or(@, 16), !.busy = FALSE]

\* The radio starts to transmit the top TX payload when the enable pin is
\* high while it is powered up in the TX role.
DevEnable(d, level) ==
    IF d.present /\ level /\ And(d.reg[CONFIG], 3) = 2 /\ d.tx # <<>>
    THEN [d EXCEPT !.busy = TRUE]
    ELSE d

-----------------------------------------------------------------------------
(* The running driver: s = [drv, dev, ce, log, ret, err, ups, nest, deep]   *)
(* threaded through the statements of a method; ret is the value the last   *)
(* call returned, err the exception raised.                                 *)

\* Each statement of a method is an operator from the driver before it to the
\* driver after it, and a method is the chain of its statements.

\* one bus transaction (the `with self:` block of the four primitives)
Transfer(s, opcode, data, n) ==
    [s EXCEPT !.drv._status = DevStatus(s.dev),
              !.dev = DevExec(s.dev, opcode, data, n),
              !.log = Append(@, [cmd |-> opcode, data |-> data, n |-> n,
                                 st |-> DevStatus(s.dev), ce |-> s.ce]),
              !.ret = DevOut(s.dev, opcode, n)]

\* return buf[1]
FirstByte(s) == [s EXCEPT !.ret = s.ret[1]]

\* a method that returns nothing
NoRet(s) == [s EXCEPT !.ret = None]

\* return value
Return(s, value) == [s EXCEPT !.ret = value]

\* a method left by a failed assert
Raise(s) == [s EXCEPT !.ret = None, !.err = "AssertionError"]

_reg_read(s, reg) == FirstByte(Transfer(s, reg, <<>>, 1))

_reg_read_bytes(s, reg, buf_len) == Transfer(s, reg, <<>>, buf_len)

_reg_write_bytes(s, reg, outBuf) ==
    NoRet(Transfer(s, Or(32, reg), outBuf, Len(outBuf)))

_reg_write(s, reg, value) ==
    IF value = None
    THEN NoRet(Transfer(s, reg, <<>>, 0))
    ELSE NoRet(Transfer(s, Or(32, reg), <<value[1]>>, 1))

\* self.<field> = value
Assign(s, field, value) == [s EXCEPT !.drv[field] = value]

\* self.<field> = <the value the call before returned>
AssignRet(s, field) == [s EXCEPT !.drv[field] = s.ret]

\* self.<field> = self._reg_read(reg)
_reg_read_into(s, reg, field) == AssignRet(_reg_read(s, reg), field)

\* self._reg_write(reg, self.<field>)
_reg_write_from(s, reg, field) == _reg_write(s, reg, Some(s.drv[field]))

\* self.<field> = value; self._reg_write(reg, self.<field>)
AssignAndWrite(s, reg, field, value) ==
    _reg_write_from(Assign(s, field, value), reg, field)

flush_rx(s) == _reg_write(s, FLUSH_RX, None)

flush_tx(s) == _reg_write(s, FLUSH_TX, None)

clear_status_flags(s, dataReady, dataSent, maxRetry) ==
    _reg_write(s, STATUS,
               Some(Or(Or(Shl(B2I(dataReady), 6), Shl(B2I(dataSent), 5)),
                       Shl(B2I(maxRetry), 4))))

\* self.ce.value = level; a rising edge is noted in ups with the number of
\* bus transactions made before it
ce_set(s, level) ==
    [s EXCEPT !.ce = level, !.dev = DevEnable(s.dev, level),
              !.ups = IF level /\ ~s.ce THEN Append(@, Len(s.log)) ELSE @]

\* the dynamic_payloads getter
dynamic_payloads(s) == And(s.drv._dyn_pl, And(s.drv._features, 4))

\* the auto_ack getter
auto_ack(s) == s.drv._auto_ack

\* The two setters assign each other's attribute.
RECURSIVE auto_ack_set(_, _)
RECURSIVE dynamic_payloads_set(_, _)

\* the most setter calls followed into one another
MaxNest == 4

\* a setter is entered: one more call is nested (nest), and deep keeps the
\* most that were nested at once
setter_enter(s) ==
    [s EXCEPT !.nest = @ + 1, !.deep = IF s.nest + 1 > @ THEN s.nest + 1 ELSE @]

\* a setter returns or is left by an exception
setter_leave(s) == [s EXCEPT !.nest = @ - 1]

\* a call nested deeper than MaxNest is not followed: it counts as the
\* RecursionError Python raises when its own limit is passed
RaiseRecursionError(s) == [s EXCEPT !.ret = None, !.err = "RecursionError"]

\* auto_ack setter, the last statement, not reached when the call before it
\* raised
auto_ack_refresh_config(s) ==
    IF s.err # "" THEN s ELSE _reg_read_into(s, CONFIG, "_config")

\* auto_ack setter, `if (self._features & 4) != enable:` and its block
auto_ack_manage_dpl(s, enable) ==
    IF And(s.drv._features, 4) # B2I(enable)
    THEN dynamic_payloads_set(AssignAndWrite(s, FEATURE, "_features",
                                             Or(AndNot(s.drv._features, 4), 4)),
                              enable)
    ELSE s

\* dynamic_payloads setter that assigns auto_ack whenever it disables
dynamic_payloads_drop_ack_always(s, enable) ==
    IF ~enable THEN auto_ack_set(s, enable) ELSE s

\* dynamic_payloads setter, `if self.auto_ack and not enable:`
dynamic_payloads_drop_ack(s, enable) ==
    IF auto_ack(s) # 0 /\ ~enable THEN auto_ack_set(s, enable) ELSE s

\* dynamic_payloads setter, `if self._features & 4 != enable:` and its block
dynamic_payloads_feature(s, enable) ==
    IF And(s.drv._features, 4) # B2I(enable)
    THEN AssignAndWrite(s, FEATURE, "_features",
                        Or(And(s.drv._features, 3), Shl(B2I(enable), 2)))
    ELSE s

\* dynamic_payloads setter, `if self.dynamic_payloads != enable:` and its
\* block, not reached when the call before it raised
dynamic_payloads_write(s, enable) ==
    IF s.err = "" /\ dynamic_payloads(s) # B2I(enable)
    THEN AssignAndWrite(dynamic_payloads_feature(s, enable), DYNPD, "_dyn_pl",
                        IF enable THEN 63 ELSE 0)
    ELSE s

\* auto_ack setter that leaves the dynamic-payload feature alone
auto_ack_set_alone(s, enable) ==
    LET s1 == _reg_read_into(s, FEATURE, "_features")
        s2 == AssignAndWrite(s1, EN_AA, "_auto_ack", IF enable THEN 63 ELSE 0)
        s3 == _reg_read_into(s2, CONFIG, "_config")
    IN  NoRet(s3)

\* the auto_ack setter, its body
auto_ack_body(s, enable) ==
    LET s1 == _reg_read_into(s, FEATURE, "_features")
        s2 == AssignAndWrite(s1, EN_AA, "_auto_ack", IF enable THEN 63 ELSE 0)
        s3 == auto_ack_manage_dpl(s2, enable)
        s4 == auto_ack_refresh_config(s3)
    IN  NoRet(s4)

\* the auto_ack setter
auto_ack_set(s, enable) ==
    IF s.nest >= MaxNest
    THEN RaiseRecursionError(s)
    ELSE setter_leave(auto_ack_body(setter_enter(s), enable))

\* the dynamic_payloads setter, its body
dynamic_payloads_body(s, enable) ==
    LET s1 == _reg_read_into(s, FEATURE, "_features")
        s2 == _reg_read_into(s1, DYNPD, "_dyn_pl")
        s3 == dynamic_payloads_drop_ack(s2, enable)
        s4 == dynamic_payloads_write(s3, enable)
    IN  NoRet(s4)

\* the dynamic_payloads setter
dynamic_payloads_set(s, enable) ==
    IF s.nest >= MaxNest
    THEN RaiseRecursionError(s)
    ELSE setter_leave(dynamic_payloads_body(setter_enter(s), enable))

\* ack setter, `if (self._features & 2) != (ack is None):` and its block; ack
\* is a tuple, so `ack is None` is False
ack_feature(s, ack) ==
    IF And(s.drv._features, 2) # B2I(FALSE)
    THEN AssignAndWrite(s, FEATURE, "_features",
                        Or(And(s.drv._features, 5), IF ack[1] = None THEN 0 ELSE 2))
    ELSE s

\* ack setter, `if not (self.auto_ack): self.auto_ack = True`
ack_needs_auto_ack(s) ==
    IF auto_ack(s) = 0 THEN auto_ack_set(s, TRUE) ELSE s

\* ack setter, `if ack[0] is not None and self.auto_ack:` and its block
ack_load(s, ack) ==
    IF ack[1] # None /\ auto_ack(s) # 0
    THEN _reg_write_bytes(s, Or(W_ACK_PAYLOAD, ack[2]), ack[1][1])
    ELSE s

\* the ack setter; ack = <<None or Some(payload), pipe number>>
ack_set(s, ack) ==
    LET s1 == ack_feature(s, ack)
        s2 == ack_needs_auto_ack(s1)
        s3 == ack_load(s2, ack)
    IN  NoRet(s3)

\* the ack setter with its assert
ack_setter(s, ack) ==
    IF (ack[1] = None \/ (1 <= Len(ack[1][1]) /\ Len(ack[1][1]) <= 32))
       /\ 0 <= ack[2] /\ ack[2] <= 5
    THEN ack_set(s, ack)
    ELSE Raise(s)

\* interrupt_config(onMaxARC, onDataSent, onDataRecv)
IrqMask(onMaxARC, onDataSent, onDataRecv) ==
    Or(Or(PyNot(Shl(B2I(onMaxARC), 4)), PyNot(Shl(B2I(onDataSent), 5))),
       PyNot(Shl(B2I(onDataRecv), 6)))

\* interrupt_config, `if self._config & 0xF0 != ...:` and its block
interrupt_config_write(s, mask) ==
    IF And(s.drv._config, 240) # mask
    THEN AssignAndWrite(s, CONFIG, "_config", Or(And(s.drv._config, 15), mask))
    ELSE s

interrupt_config(s, onMaxARC, onDataSent, onDataRecv) ==
    LET s1 == _reg_read_into(s, CONFIG, "_config")
        s2 == interrupt_config_write(s1, IrqMask(onMaxARC, onDataSent, onDataRecv))
    IN  NoRet(s2)

\* pipe, after the status poll: Some(pipe) or None
pipe_of_status(s) ==
    IF Shr(And(s.drv._status, 14), 1) <= 5
    THEN Return(s, Some(Shr(And(s.drv._status, 14), 1)))
    ELSE Return(s, None)

\* pipe() called without a pipe number
pipe(s) == pipe_of_status(_reg_write(s, NOP, None))

\* pipe(pipe_number) after the status poll; pipe_number is None or Some(n)
pipe_answer(s, pipe_number) ==
    IF Shr(And(s.drv._status, 14), 1) <= 5
    THEN IF pipe_number = None
         THEN Return(s, Some(Shr(And(s.drv._status, 14), 1)))
         ELSE Return(s, pipe_number[1] = Shr(And(s.drv._status, 14), 1))
    ELSE Return(s, None)

\* pipe(pipe_number) with its assert
pipe_with(s, pipe_number) ==
    IF pipe_number = None \/ (0 <= pipe_number[1] /\ pipe_number[1] <= 5)
    THEN pipe_answer(_reg_write(s, NOP, None), pipe_number)
    ELSE Raise(s)

\* any, after the call of pipe
any_of_pipe(s) ==
    IF s.ret # None
    THEN IF dynamic_payloads(s) = 0
         THEN _reg_read(s, R_RX_PL_WID)
         ELSE Return(s, 1)
    ELSE Return(s, 0)

\* any(): the payload width, True as 1, False as 0
any(s) == any_of_pipe(pipe(s))

\* recv that reads payload_length bytes whatever the payload mode
recv_size_static(s) == Return(s, s.drv._payload_length)

\* recv: curr_pl_size, left in ret
recv_size(s) ==
    IF dynamic_payloads(s) = 0
    THEN Return(s, s.drv._payload_length)
    ELSE _reg_read(s, R_RX_PL_WID)

\* recv: result = self._reg_read_bytes(0x61, curr_pl_size)
recv_read(s) == _reg_read_bytes(s, R_RX_PAYLOAD, s.ret)

\* recv: self.clear_status_flags(); return result
recv_clear(s) == Return(clear_status_flags(s, TRUE, TRUE, TRUE), s.ret)

recv(s) ==
    LET s1 == recv_size(s)
        s2 == recv_read(s1)
    IN  recv_clear(s2)

\* self._ack = <the payload recv returned>
read_ack_save(s) == [s EXCEPT !.drv._ack = Some(s.ret)]

\* read_ack, after the call of any
read_ack_of_any(s) ==
    IF s.ret # 0 THEN read_ack_save(recv(s)) ELSE s

\* return self.ack (the ack getter)
ack_get(s) == Return(s, s.drv._ack)

read_ack(s) ==
    LET s1 == any(s)
        s2 == read_ack_of_any(s1)
    IN  ack_get(s2)

\* the reuse_tx getter, `return self._fifo & 0x40`
reuse_tx(s) == And(s.drv._fifo, 64)

\* a statement that fails on a None where a bytearray is expected
RaiseTypeError(s) == [s EXCEPT !.ret = None, !.err = "TypeError"]

\* fifo, what is returned of the shadow just refreshed; empty is None or
\* Some(bool); True as 1, False as 0
fifo_answer(s, tx, empty) ==
    IF empty = None
    THEN Return(s, Shr(And(s.drv._fifo, IF tx THEN 48 ELSE 3), 4 * B2I(tx)))
    ELSE Return(s, B2I(And(s.drv._fifo,
                           Shl(2 - B2I(empty[1]), 4 * B2I(tx))) # 0))

\* fifo(tx, empty)
fifo(s, tx, empty) ==
    fifo_answer(_reg_read_into(s, FIFO_STATUS, "_fifo"), tx, empty)

\* send_fast: self._config = (self._reg_read(0) & 0x7c) | 2
send_fast_config(s) == Assign(s, "_config", Or(And(s.ret, 124), 2))

\* fitting that pads a short payload and leaves a long one whole
FitPayload_pad_only(s, buf) ==
    IF dynamic_payloads(s) = 0 /\ Len(buf) < s.drv._payload_length
    THEN buf \o [i \in 1..(s.drv._payload_length - Len(buf)) |-> 0]
    ELSE buf

\* the payload send_fast writes: padded with zeros or cut to payload_length
\* unless dynamic payloads are on
FitPayload(s, buf) ==
    IF dynamic_payloads(s) = 0
    THEN IF Len(buf) < s.drv._payload_length
         THEN buf \o [i \in 1..(s.drv._payload_length - Len(buf)) |-> 0]
         ELSE IF Len(buf) > s.drv._payload_length
         THEN SubSeq(buf, 1, s.drv._payload_length)
         ELSE buf
    ELSE buf

\* send_fast that leaves the TX FIFO as it finds it when no reuse is asked
send_fast_fifo_no_flush(s, reUseTX) ==
    IF reUseTX THEN _reg_write(s, REUSE_TX_PL, None) ELSE s

\* send_fast, `elif reUseTX: ... else: self.flush_tx()`
send_fast_fifo(s, reUseTX) ==
    IF reUseTX THEN _reg_write(s, REUSE_TX_PL, None) ELSE flush_tx(s)

\* send_fast that asks for no acknowledgment only when AskNoACK says so
send_fast_write_by_flag(s, b, AskNoACK) ==
    IF AskNoACK
    THEN _reg_write_bytes(s, W_TX_PAYLOAD_NO_ACK, b)
    ELSE _reg_write_bytes(s, W_TX_PAYLOAD, b)

\* send_fast, `if AskNoACK or not self.auto_ack: ... else: ...`
send_fast_write(s, b, AskNoACK) ==
    IF AskNoACK \/ auto_ack(s) = 0
    THEN _reg_write_bytes(s, W_TX_PAYLOAD_NO_ACK, b)
    ELSE _reg_write_bytes(s, W_TX_PAYLOAD, b)

\* send_fast that clears the data-ready flag along with the other two
send_fast_load_clear_all(s, buf, AskNoACK, reUseTX) ==
    send_fast_write(clear_status_flags(send_fast_fifo(s, reUseTX), TRUE, TRUE, TRUE),
                    FitPayload(s, buf), AskNoACK)

\* send_fast from the padding on; the payload is fitted before the FIFO and the
\* flags are handled, none of which changes what it is fitted to
send_fast_load(s, buf, AskNoACK, reUseTX) ==
    send_fast_write(clear_status_flags(send_fast_fifo(s, reUseTX), FALSE, TRUE, TRUE),
                    FitPayload(s, buf), AskNoACK)

\* send_fast that raises the enable pin before the payload is written
send_fast_ce_early(s, buf, AskNoACK, reUseTX) ==
    LET s1 == _reg_read(s, CONFIG)
        s2 == send_fast_config(s1)
        s3 == _reg_write_from(s2, CONFIG, "_config")
        s4 == send_fast_load(ce_set(s3, TRUE), buf, AskNoACK, reUseTX)
    IN  NoRet(s4)

\* send_fast(buf, AskNoACK, reUseTX) with a payload given
send_fast(s, buf, AskNoACK, reUseTX) ==
    LET s1 == _reg_read(s, CONFIG)
        s2 == send_fast_config(s1)
        s3 == _reg_write_from(s2, CONFIG, "_config")
        s4 == send_fast_load(s3, buf, AskNoACK, reUseTX)
        s5 == ce_set(s4, TRUE)
    IN  NoRet(s5)

\* send_fast, the power-up: CONFIG is read, the TX role and power-up set,
\* and written back
send_fast_power_up(s) ==
    _reg_write_from(send_fast_config(_reg_read(s, CONFIG)), CONFIG, "_config")

\* send_fast with buf None, from the padding on: len(buf) fails where the
\* payload is to be padded; otherwise `with self: pass` makes no transfer,
\* the flags are cleared and the payload write fails on the None
send_fast_no_buf_load(s) ==
    IF dynamic_payloads(s) = 0
    THEN RaiseTypeError(s)
    ELSE RaiseTypeError(clear_status_flags(s, FALSE, TRUE, TRUE))

\* send_fast() with buf left at None: the assert passes on the reuse_tx flag
\* and else fails on len(buf)
send_fast_no_buf(s) ==
    IF reuse_tx(s) # 0
    THEN send_fast_no_buf_load(send_fast_power_up(s))
    ELSE RaiseTypeError(s)

\* the flags of a status byte, as irq_DS and irq_DF read them
irq_DS(status) == And(status, 32)
irq_DF(status) == And(status, 16)

\* loop body that looks at the max-retry flag first
SendOutcome_DF_first(status) ==
    IF irq_DS(status) # 0 \/ irq_DF(status) # 0
    THEN IF irq_DF(status) # 0 THEN 2 ELSE 1
    ELSE 0

\* one pass of send's loop body after the status poll: the new result
SendOutcome(status) ==
    IF irq_DS(status) # 0 \/ irq_DF(status) # 0
    THEN IF irq_DS(status) # 0 THEN 1 ELSE 2
    ELSE 0

\* loop condition that forgets the deadline
SendLooping_no_deadline(result, elapsed, timeout) == result = 0

\* send's loop condition
SendLooping(result, elapsed, timeout) == result = 0 /\ elapsed < timeout

\* send that clears the flags whether or not the ACK payload was asked for
send_finish_clear_only(s, want_ack) == clear_status_flags(s, TRUE, TRUE, TRUE)

\* send after its loop
send_finish(s, want_ack) ==
    IF want_ack /\ irq_DS(s.drv._status) # 0
    THEN read_ack(s)
    ELSE clear_status_flags(s, TRUE, TRUE, TRUE)

\* presence check on all four low bits of the status byte
DeviceResponds_low4(status) == And(status, 15) = 14

\* the presence check of __init__ on the status byte the second flush returned
DeviceResponds(status) == And(status, 14) = 14

\* __init__, the fields set before the bus is used
init_fields(s, payload_length) ==
    [s EXCEPT !.drv._payload_length = payload_length,
              !.drv.pipe0_read_addr = None,
              !.drv._status = 0, !.drv._config = 0, !.drv._fifo = 0]

\* __init__, the CONFIG value of line 97: `not` applies to the shifted flag
InitConfig(irqDR, irqDS, irqDF) ==
    Or(Or(Or(PyNot(Shl(B2I(irqDR), 6)), PyNot(Shl(B2I(irqDS), 5))),
          PyNot(Shl(B2I(irqDF), 4))), 12)

\* channel setter that writes only a channel that differs from the shadow
channel_set_if_changed(s, channel) ==
    IF s.drv._channel # channel
    THEN AssignAndWrite(s, RF_CH, "_channel", channel)
    ELSE s

\* self.channel = channel
channel_set(s, channel) == AssignAndWrite(s, RF_CH, "_channel", channel)

\* self.address_length = address_length
address_length_set(s, length) == _reg_write(s, SETUP_AW, Some(length - 2))

\* __init__ once the radio has answered
init_configure(s, channel, address_length, dyn, aa, irqDR, irqDS, irqDF) ==
    LET s4 == clear_status_flags(s, TRUE, TRUE, TRUE)
        s5 == AssignAndWrite(s4, CONFIG, "_config", InitConfig(irqDR, irqDS, irqDF))
        s6 == channel_set(s5, channel)
        s7 == address_length_set(s6, address_length)
        s8 == AssignAndWrite(s7, SETUP_AW + 1, "_setup_retr", 83)
        s9 == AssignAndWrite(s8, RF_SETUP, "_rf_setup", 6)
        s10 == AssignAndWrite(s9, FEATURE, "_features", 5)
        s11 == Assign(s10, "_ack", None)
        s12 == AssignAndWrite(s11, EN_AA, "_auto_ack", B2I(aa) * 63)
        s13 == AssignAndWrite(s12, EN_RXADDR, "_open_pipes", 0)
        s14 == _reg_read_into(s13, DYNPD, "_dyn_pl")
    IN  dynamic_payloads_set(s14, dyn)

\* __init__, the presence check and what follows it
init_check(s, channel, address_length, dyn, aa, irqDR, irqDS, irqDF) ==
    IF ~DeviceResponds(s.drv._status)
    THEN Return(s, "RuntimeError")
    ELSE init_configure(s, channel, address_length, dyn, aa, irqDR, irqDS, irqDF)

\* RF24.__init__; ret is "RuntimeError" when it raises
__init__(s, channel, payload_length, address_length, dyn, aa, irqDR, irqDS, irqDF) ==
    LET s0 == init_fields(s, payload_length)
        s1 == ce_set(s0, FALSE)
        s2 == flush_rx(s1)
        s3 == flush_tx(s2)
    IN  init_check(s3, channel, address_length, dyn, aa, irqDR, irqDS, irqDF)

\* return <the value the call before returned> + 2
PlusTwo(s) == Return(s, s.ret + 2)

\* the address_length getter
address_length_get(s) == PlusTwo(_reg_read(s, SETUP_AW))

\* open_tx_pipe, `if self.ack is not None or self.auto_ack:` and its block
open_tx_pipe_rx0(s, address) ==
    IF s.drv._ack # None \/ auto_ack(s) # 0
    THEN _reg_write_bytes(s, RX_ADDR_P0, address)
    ELSE s

\* `if not self.dynamic_payloads:` and the write of the pipe's payload width
open_tx_pipe_width(s) ==
    IF dynamic_payloads(s) = 0
    THEN _reg_write_from(s, RX_PW_P0, "_payload_length")
    ELSE s

\* open_tx_pipe after its assert; s has the answer of the address_length getter
open_tx_pipe_body(s, address) ==
    IF Len(address) <= s.ret
    THEN NoRet(_reg_write_bytes(open_tx_pipe_width(open_tx_pipe_rx0(s, address)),
                                TX_ADDR, address))
    ELSE Raise(s)

open_tx_pipe(s, address) == open_tx_pipe_body(address_length_get(s), address)

\* close_rx_pipe, the reset of the pipe's address
close_rx_pipe_addr(s, pipe_number) ==
    IF pipe_number = 0
    THEN _reg_write_bytes(Assign(s, "pipe0_read_addr", Some(<<231, 231, 231, 231, 231>>)),
                          pipe_number + RX_ADDR_P0, <<231, 231, 231, 231, 231>>)
    ELSE IF pipe_number < 2
    THEN _reg_write_bytes(s, pipe_number + RX_ADDR_P0, <<194, 194, 194, 194, 194>>)
    ELSE _reg_write(s, pipe_number + RX_ADDR_P0, Some(pipe_number + 193))

\* close_rx_pipe that writes the mask whether or not the pipe was open
close_rx_pipe_disable_always(s, pipe_number) ==
    AssignAndWrite(s, EN_RXADDR, "_open_pipes",
                   AndNot(s.drv._open_pipes, Shl(1, pipe_number)))

\* close_rx_pipe, `if self._open_pipes & (1 << pipe_number):` and its block
close_rx_pipe_disable(s, pipe_number) ==
    IF And(s.drv._open_pipes, Shl(1, pipe_number)) # 0
    THEN AssignAndWrite(s, EN_RXADDR, "_open_pipes",
                        AndNot(s.drv._open_pipes, Shl(1, pipe_number)))
    ELSE s

close_rx_pipe(s, pipe_number) ==
    IF 0 <= pipe_number /\ pipe_number <= 5
    THEN NoRet(close_rx_pipe_disable(close_rx_pipe_addr(s, pipe_number), pipe_number))
    ELSE Raise(s)

\* open_rx_pipe that writes the entire address whatever the pipe
open_rx_pipe_addr_whole(s, pipe_number, address) ==
    IF pipe_number = 0
    THEN _reg_write_bytes(Assign(s, "pipe0_read_addr", Some(address)),
                          RX_ADDR_P0 + pipe_number, address)
    ELSE _reg_write_bytes(s, RX_ADDR_P0 + pipe_number, address)

\* open_rx_pipe, `if pipe_number < 2:` and both its branches
open_rx_pipe_addr(s, pipe_number, address) ==
    IF pipe_number < 2
    THEN IF pipe_number = 0
         THEN _reg_write_bytes(Assign(s, "pipe0_read_addr", Some(address)),
                               RX_ADDR_P0 + pipe_number, address)
         ELSE _reg_write_bytes(s, RX_ADDR_P0 + pipe_number, address)
    ELSE _reg_write(s, RX_ADDR_P0 + pipe_number, Some(address[Len(address)]))

\* open_rx_pipe, the write of the pipe's payload width
open_rx_pipe_width(s, pipe_number) ==
    IF dynamic_payloads(s) = 0 /\ And(s.drv._dyn_pl, Shl(1, pipe_number)) = 0
    THEN _reg_write_from(s, RX_PW_P0 + pipe_number, "_payload_length")
    ELSE s

\* open_rx_pipe that enables the pipe by writing its bit alone
open_rx_pipe_enable_alone(s, pipe_number) ==
    IF And(s.drv._open_pipes, Shl(1, pipe_number)) = 0
    THEN AssignAndWrite(s, EN_RXADDR, "_open_pipes", Shl(1, pipe_number))
    ELSE s

\* open_rx_pipe, `if not (self._open_pipes & (1 << pipe_number)):` and its block
open_rx_pipe_enable(s, pipe_number) ==
    IF And(s.drv._open_pipes, Shl(1, pipe_number)) = 0
    THEN AssignAndWrite(s, EN_RXADDR, "_open_pipes",
                        Or(s.drv._open_pipes, Shl(1, pipe_number)))
    ELSE s

\* open_rx_pipe after its assert
open_rx_pipe_body(s, pipe_number, address) ==
    LET s1 == _reg_read_into(s, EN_RXADDR, "_open_pipes")
        s2 == open_rx_pipe_addr(s1, pipe_number, address)
        s3 == open_rx_pipe_width(s2, pipe_number)
        s4 == open_rx_pipe_enable(s3, pipe_number)
    IN  NoRet(s4)

\* open_rx_pipe from the second test of its assert on; s has the answer of the
\* address_length getter
open_rx_pipe_checked(s, pipe_number, address) ==
    IF Len(address) <= s.ret /\ 0 <= pipe_number /\ pipe_number <= 5
    THEN open_rx_pipe_body(s, pipe_number, address)
    ELSE Raise(s)

\* open_rx_pipe; the assert tests the address first, and asks the radio for
\* the address length unless the address is empty
open_rx_pipe(s, pipe_number, address) ==
    IF 1 <= Len(address)
    THEN open_rx_pipe_checked(address_length_get(s), pipe_number, address)
    ELSE Raise(s)

\* power getter: the shadow of CONFIG is refreshed, `return self._config & 0x2`
power_field(s) == Return(s, And(s.drv._config, 2))

power_get(s) == power_field(_reg_read_into(s, CONFIG, "_config"))

\* power setter, `if self.power != isOn:` and its block; s has the answer of
\* the power getter
power_write(s, isOn) ==
    IF s.ret # B2I(isOn)
    THEN AssignAndWrite(s, CONFIG, "_config",
                        Or(And(s.drv._config, 125), Shl(B2I(isOn), 1)))
    ELSE s

\* the power setter
power_set(s, isOn) == NoRet(power_write(power_get(s), isOn))

\* listen getter, `self.power and bool(self._config & 1)`; s has the answer
\* of the power getter; True as 1, False as 0
listen_of_power(s) ==
    IF s.ret = 0 THEN Return(s, 0) ELSE Return(s, B2I(And(s.drv._config, 1) # 0))

\* listen getter that answers from the shadow of CONFIG as it is
listen_get_stored(s) ==
    Return(s, B2I(And(s.drv._config, 3) = 3))

\* the listen getter
listen_get(s) == listen_of_power(power_get(s))

\* `if self.ce.value: self.ce.value = 0`
ce_lower(s) == IF s.ce THEN ce_set(s, FALSE) ELSE s

\* _start_listening, `if self.pipe0_read_addr is not None:` and its block
restore_pipe0(s) ==
    IF s.drv.pipe0_read_addr # None
    THEN _reg_write_bytes(s, RX_ADDR_P0, s.drv.pipe0_read_addr[1])
    ELSE s

\* _start_listening, `self._config = self._config & 0xFC | 3` and its write
start_listening_config(s) ==
    AssignAndWrite(s, CONFIG, "_config", Or(And(s.drv._config, 252), 3))

\* _start_listening that leaves pipe 0's address as it finds it
_start_listening_no_restore(s) ==
    LET s1 == flush_rx(s)
        s2 == clear_status_flags(s1, TRUE, FALSE, FALSE)
        s3 == ce_lower(s2)
        s4 == _reg_write_from(s3, RX_PW_P0, "_payload_length")
        s6 == start_listening_config(s4)
    IN  NoRet(ce_set(s6, TRUE))

\* _start_listening that clears all three status flags
_start_listening_clear_all(s) ==
    LET s1 == flush_rx(s)
        s2 == clear_status_flags(s1, TRUE, TRUE, TRUE)
        s3 == ce_lower(s2)
        s4 == _reg_write_from(s3, RX_PW_P0, "_payload_length")
        s5 == restore_pipe0(s4)
        s6 == start_listening_config(s5)
    IN  NoRet(ce_set(s6, TRUE))

_start_listening(s) ==
    LET s1 == flush_rx(s)
        s2 == clear_status_flags(s1, TRUE, FALSE, FALSE)
        s3 == ce_lower(s2)
        s4 == _reg_write_from(s3, RX_PW_P0, "_payload_length")
        s5 == restore_pipe0(s4)
        s6 == start_listening_config(s5)
    IN  NoRet(ce_set(s6, TRUE))

\* _stop_listening that clears the power-up bit along with the RX-role bit
stop_listening_config_power_down(s) ==
    AssignAndWrite(s, CONFIG, "_config", AndNot(s.drv._config, 3))

\* _stop_listening, `self._config = self._config & ~0x01` and its write
stop_listening_config(s) ==
    AssignAndWrite(s, CONFIG, "_config", AndNot(s.drv._config, 1))

_stop_listening(s) == NoRet(stop_listening_config(ce_lower(s)))

\* the listen setter
listen_set(s, rx) == IF rx THEN _start_listening(s) ELSE _stop_listening(s)

-----------------------------------------------------------------------------
(* The configuration attributes: each getter and setter *)

\* arc getter, `return self._setup_retr & 0x0f`
arc_field(s) == Return(s, And(s.drv._setup_retr, 15))

\* the arc getter
arc_get(s) == arc_field(_reg_read_into(s, SETUP_AW + 1, "_setup_retr"))

\* arc setter that writes whether or not the count changes
arc_write_always(s, count) ==
    AssignAndWrite(s, SETUP_AW + 1, "_setup_retr",
                   Or(And(s.drv._setup_retr, 240), count))

\* arc setter, `if self.arc & 0x0F != count:` and its block; s has the answer
\* of the arc getter
arc_write(s, count) ==
    IF And(s.ret, 15) # count
    THEN AssignAndWrite(s, SETUP_AW + 1, "_setup_retr",
                        Or(And(s.drv._setup_retr, 240), count))
    ELSE s

\* the arc setter
arc_set(s, count) ==
    IF 0 <= count /\ count <= 15
    THEN NoRet(arc_write(arc_get(_reg_read_into(s, SETUP_AW + 1, "_setup_retr")),
                         count))
    ELSE Raise(s)

\* ard getter, `return ((self._setup_retr & 0xf0) >> 4) * 250 + 250`
ard_field(s) == Return(s, Shr(And(s.drv._setup_retr, 240), 4) * 250 + 250)

\* the ard getter
ard_get(s) == ard_field(_reg_read_into(s, SETUP_AW + 1, "_setup_retr"))

\* ard setter, `if self.ard != t:` and its block; s has the answer of the ard
\* getter
ard_write(s, t) ==
    IF s.ret # t
    THEN AssignAndWrite(s, SETUP_AW + 1, "_setup_retr",
                        Or(Shl((t - 250) \div 250, 4), And(s.drv._setup_retr, 15)))
    ELSE s

\* the ard setter
ard_set(s, t) ==
    IF 250 <= t /\ t <= 4000 /\ t % 250 = 0
    THEN NoRet(ard_write(ard_get(_reg_read_into(s, SETUP_AW + 1, "_setup_retr")), t))
    ELSE Raise(s)

\* the address_length setter with its assert
address_length_setter(s, length) ==
    IF 3 <= length /\ length <= 5 THEN address_length_set(s, length) ELSE Raise(s)

\* the payload_length getter
payload_length_get(s) == Return(s, s.drv._payload_length)

\* payload_length setter that takes any length
payload_length_set_unchecked(s, length) == NoRet(Assign(s, "_payload_length", length))

\* the payload_length setter
payload_length_set(s, length) ==
    IF 0 <= length /\ length <= 32
    THEN NoRet(Assign(s, "_payload_length", length))
    ELSE Raise(s)

\* data_rate getter, the if chain on `self._rf_setup & 0x28`; falling off its
\* end returns None
data_rate_field(s) ==
    IF And(s.drv._rf_setup, 40) = 0 THEN Return(s, 1)
    ELSE IF And(s.drv._rf_setup, 40) = 8 THEN Return(s, 2)
    ELSE IF And(s.drv._rf_setup, 40) = 32 THEN Return(s, 250)
    ELSE Return(s, None)

\* the data_rate getter
data_rate_get(s) == data_rate_field(_reg_read_into(s, RF_SETUP, "_rf_setup"))

\* data_rate setter, the if chain that turns speed into register bits
SpeedBits(speed) ==
    IF speed = 1 THEN 0 ELSE IF speed = 2 THEN 8 ELSE IF speed = 250 THEN 32 ELSE speed

\* data_rate setter, `if self._rf_setup & 0x28 != speed:` and its block
data_rate_write(s, bits) ==
    IF And(s.drv._rf_setup, 40) # bits
    THEN AssignAndWrite(s, RF_SETUP, "_rf_setup", Or(AndNot(s.drv._rf_setup, 40), bits))
    ELSE s

\* the data_rate setter
data_rate_set(s, speed) ==
    IF speed \in {1, 2, 250}
    THEN NoRet(data_rate_write(_reg_read_into(s, RF_SETUP, "_rf_setup"),
                               SpeedBits(speed)))
    ELSE Raise(s)

\* pa_level getter, `return (3 - ((self._rf_setup & RF_SETUP) >> 1)) * -6`
pa_level_field(s) == Return(s, (3 - Shr(And(s.drv._rf_setup, RF_SETUP), 1)) * (-6))

\* the pa_level getter
pa_level_get(s) == pa_level_field(_reg_read_into(s, RF_SETUP, "_rf_setup"))

\* pa_level setter, the if chain that turns power into register bits
PowerBits(power) ==
    IF power = -18 THEN 0 ELSE IF power = -12 THEN 2 ELSE IF power = -6 THEN 4
    ELSE IF power = 0 THEN 6 ELSE power

\* pa_level setter, `if self._rf_setup & RF_SETUP != power:` and its block
pa_level_write(s, bits) ==
    IF And(s.drv._rf_setup, RF_SETUP) # bits
    THEN AssignAndWrite(s, RF_SETUP, "_rf_setup",
                        Or(AndNot(s.drv._rf_setup, RF_SETUP), bits))
    ELSE s

\* the pa_level setter
pa_level_set(s, power) ==
    IF power \in {-18, -12, -6, 0}
    THEN NoRet(pa_level_write(_reg_read_into(s, RF_SETUP, "_rf_setup"),
                              PowerBits(power)))
    ELSE Raise(s)

\* crc getter, `return max(0, ((self._config & 12) >> 2) - 1)`
crc_field(s) ==
    IF Shr(And(s.drv._config, 12), 2) - 1 > 0
    THEN Return(s, Shr(And(s.drv._config, 12), 2) - 1)
    ELSE Return(s, 0)

\* the crc getter
crc_get(s) == crc_field(_reg_read_into(s, CONFIG, "_config"))

\* crc bits that are the length itself, shifted
CrcBits_plain(length) == Shl(length, 2)

\* crc setter, `length = (length + 1) << 2 if length else 0`
CrcBits(length) == IF length # 0 THEN Shl(length + 1, 2) ELSE 0

\* crc setter that keeps only the interrupt-mask bits of CONFIG
crc_write_drop_role(s, bits) ==
    IF And(s.drv._config, 12) # bits
    THEN AssignAndWrite(s, CONFIG, "_config", Or(And(s.drv._config, 112), bits))
    ELSE s

\* crc setter, `if (self._config & 12 != length):` and its block
crc_write(s, bits) ==
    IF And(s.drv._config, 12) # bits
    THEN AssignAndWrite(s, CONFIG, "_config", Or(And(s.drv._config, 115), bits))
    ELSE s

\* the crc setter
crc_set(s, length) ==
    IF 0 <= length /\ length <= 2
    THEN NoRet(crc_write(_reg_read_into(s, CONFIG, "_config"), CrcBits(length)))
    ELSE Raise(s)

\* the channel getter
channel_get(s) == Return(s, s.drv._channel)

\* the channel setter with its assert
channel_setter(s, channel) ==
    IF 0 <= channel /\ channel <= 125 THEN NoRet(channel_set(s, channel)) ELSE Raise(s)

-----------------------------------------------------------------------------
(* Bounds of the model: the inputs the operations are called with and the  *)
(* states the radio can be found in when the driver is constructed         *)

Channels == {76}
AddressLengths == {5}
PayloadLengths == {0, 2}
\* the payloads given to send
Payloads == {<<1>>, <<1, 2, 3>>}
\* the ACK payloads the other radio answers with
RxAckPayloads == {<<5>>}
\* send's timeout, and the time one status poll takes, in clock ticks
MaxTimeout == 2
MaxPollTicks == 2
\* the most status polls one send is followed through; the deadline allows no
\* more than MaxTimeout of them, each taking a tick at least
MaxPolls == 3
\* the longest payload (the payload_length setter's upper limit)
MaxPayloadLength == 32
\* the payloads the other radio sends to a pipe with dynamic payload length
RxPayloads == {<<5>>, <<8, 9, 7>>}
\* the values assigned to the configuration attributes: the valid ones and
\* some on either side of them (of channel and payload_length, which are
\* stored as given, the ends of the range and the defaults)
Arcs == -1..16
Ards == {250 * k : k \in 0..17} \cup {300}
DataRates == {0, 1, 2, 3, 250}
PaLevels == {-18, -12, -6, -3, 0, 6}
Crcs == -1..3
ChannelValues == {-1, 0, 1, 76, 125, 126}
AddressLengthValues == 2..6
PayloadLengthValues == {-1, 0, 2, 32, 33}
\* the most attribute accesses followed after the construction
MaxCalls == 2
\* the addresses given to open_rx_pipe and open_tx_pipe: two of the full
\* length and a shorter one
Addresses == {<<1, 2, 3, 4, 5>>, <<6, 7, 8, 9, 10>>, <<11, 12, 13>>}
\* the pipe numbers given to the operations that take one: the first and the
\* last pipe and the numbers on either side of the range
PipeNumbers == {-1, 0, 5, 6}
\* the custom ACK payloads and pipes given to the ack attribute
AckPayloads == {<<7>>}
AckPipes == {0, 1}

\* the radio's registers after a power-on reset
ResetRegs ==
    (CONFIG :> 8) @@ (EN_AA :> 63) @@ (EN_RXADDR :> 3) @@ (SETUP_AW :> 3)
    @@ (SETUP_RETR :> 3) @@ (RF_CH :> 2) @@ (RF_SETUP :> 14)
    @@ (DYNPD :> 0) @@ (FEATURE :> 0)
    @@ [r \in (RX_ADDR_P0 + 2)..(RX_ADDR_P0 + 5) |-> 195 + (r - (RX_ADDR_P0 + 2))]
    @@ [r \in RX_PW_P0..(RX_PW_P0 + 5) |-> 0]

\* the radio's address registers after a power-on reset
ResetAddrs ==
    (RX_ADDR_P0 :> <<231, 231, 231, 231, 231>>)
    @@ ((RX_ADDR_P0 + 1) :> <<194, 194, 194, 194, 194>>)
    @@ (TX_ADDR :> <<231, 231, 231, 231, 231>>)

StalePayload == [kind |-> W_ACK_PAYLOAD, pipe |-> 1, data |-> <<7>>]

\* The radio when the driver is constructed: absent, fresh from reset, or
\* left powered by an earlier session with flags raised and payloads queued.
InitDevs ==
    { [present |-> p, reg |-> r, addr |-> ResetAddrs, flags |-> f, tx |-> t, rx |-> x,
       reuse |-> FALSE, busy |-> FALSE] :
        p \in BOOLEAN,
        r \in {ResetRegs,
               [ResetRegs EXCEPT ![CONFIG] = 15, ![DYNPD] = 63, ![FEATURE] = 7],
               [ResetRegs EXCEPT ![CONFIG] = 14, ![DYNPD] = 1, ![FEATURE] = 4]},
        f \in {0, 112},
        t \in {<<>>, <<StalePayload, StalePayload, StalePayload>>},
        x \in {<<>>, <<[pipe |-> 1, data |-> <<9>>]>>} }

NoDrv ==
    [_status |-> 0, _config |-> 0, _fifo |-> 0, _setup_retr |-> 0, _rf_setup |-> 0,
     _features |-> 0, _auto_ack |-> 0, _open_pipes |-> 0, _dyn_pl |-> 0,
     _ack |-> None, pipe0_read_addr |-> None, _payload_length |-> 0,
     _channel |-> 0]

NoSnd == [result |-> 0, read_ack |-> FALSE, timeout |-> 0, elapsed |-> 0,
          polls |-> <<>>, args |-> <<>>, pre |-> [_ack |-> None, ce |-> FALSE],
          ups |-> <<>>]

NoLast == [op |-> "none", args |-> <<>>, pre |-> <<>>, ret |-> None]

Init ==
    /\ phase = "new"
    /\ drv = NoDrv
    /\ ce = FALSE
    /\ dev \in InitDevs
    /\ log = <<>>
    /\ last = NoLast
    /\ pc = "idle"
    /\ snd = NoSnd
    /\ opened = None

\* no method is running and the record of the last one has been put away
Quiet == pc = "idle" /\ last = NoLast

\* the driver about to run a method
Cur == [drv |-> drv, dev |-> dev, ce |-> ce, log |-> <<>>, ret |-> None, err |-> "",
        ups |-> <<>>, nest |-> 0, deep |-> 0]

Pre == [drv |-> drv, dev |-> dev, ce |-> ce]

\* what is recorded of a call that raised the error err
Raised(err) == <<"raised", err>>

\* the method has returned or raised: what it returned is recorded in a
\* 1-tuple, an error in a pair
Ret(s, op, args) ==
    /\ drv' = s.drv
    /\ dev' = s.dev
    /\ ce' = s.ce
    /\ log' = s.log
    /\ last' = [op |-> op, args |-> args, pre |-> Pre,
                ret |-> IF s.err # "" THEN Raised(s.err) ELSE Some(s.ret),
                ups |-> s.ups, deep |-> s.deep]

-----------------------------------------------------------------------------
(* The operations *)

\* nrf = RF24(spi, csn, ce, ...), with the payload length and the interrupt
\* flags drawn from the given sets
ConstructWith(Lengths, Irqs) ==
    /\ phase = "new" /\ Quiet
    /\ \E channel \in Channels, payload_length \in Lengths,
          address_length \in AddressLengths,
          dyn \in BOOLEAN, aa \in BOOLEAN,
          irqDR \in Irqs, irqDS \in Irqs, irqDF \in Irqs :
          LET s == __init__(Cur, channel, payload_length, address_length,
                            dyn, aa, irqDR, irqDS, irqDF)
          IN  /\ Ret(s, "__init__", <<dyn, aa, irqDR, irqDS, irqDF>>)
              /\ phase' = IF s.ret = "RuntimeError" THEN "failed" ELSE "ready"
    /\ UNCHANGED <<pc, snd, opened>>

Construct == ConstructWith(PayloadLengths, BOOLEAN)

\* construction with the interrupt flags left at their defaults
ConstructDefaultIrq == ConstructWith({2}, {TRUE})

\* nrf.auto_ack = enable
SetAutoAck ==
    /\ phase = "ready" /\ Quiet
    /\ \E enable \in BOOLEAN :
          Ret(auto_ack_set(Cur, enable), "auto_ack", <<enable>>)
    /\ UNCHANGED <<phase, pc, snd, opened>>

\* nrf.dynamic_payloads = enable
SetDynamicPayloads ==
    /\ phase = "ready" /\ Quiet
    /\ \E enable \in BOOLEAN :
          Ret(dynamic_payloads_set(Cur, enable), "dynamic_payloads", <<enable>>)
    /\ UNCHANGED <<phase, pc, snd, opened>>

\* nrf.ack = (payload, pipe)
SetAck ==
    /\ phase = "ready" /\ Quiet
    /\ \E payload \in {None} \cup {Some(b) : b \in AckPayloads}, pipe_number \in AckPipes :
          Ret(ack_set(Cur, <<payload, pipe_number>>), "ack", <<payload, pipe_number>>)
    /\ UNCHANGED <<phase, pc, snd, opened>>

\* nrf.interrupt_config(onMaxARC, onDataSent, onDataRecv)
InterruptConfig ==
    /\ phase = "ready" /\ Quiet
    /\ \E onMaxARC \in BOOLEAN, onDataSent \in BOOLEAN, onDataRecv \in BOOLEAN :
          Ret(interrupt_config(Cur, onMaxARC, onDataSent, onDataRecv),
              "interrupt_config", <<onMaxARC, onDataSent, onDataRecv>>)
    /\ UNCHANGED <<phase, pc, snd, opened>>

\* result = nrf.send(buf, AskNoACK, reUseTX, read_ack, timeout): from the call
\* to the CE pulse that send_fast starts; the arguments are drawn from the
\* given sets
SendCallWith(Bufs, NoAcks, Reuses, WantAcks, Timeouts) ==
    /\ phase = "ready" /\ Quiet
    /\ \E buf \in Bufs, AskNoACK \in NoAcks, reUseTX \in Reuses,
          want_ack \in WantAcks, timeout \in Timeouts :
          LET s == send_fast(ce_set(Cur, FALSE), buf, AskNoACK, reUseTX)
          IN  /\ drv' = s.drv /\ dev' = s.dev /\ ce' = s.ce /\ log' = s.log
              /\ last' = [op |-> "send:running", args |-> <<>>, pre |-> <<>>,
                           ret |-> None]
              /\ snd' = [result |-> 0, read_ack |-> want_ack, timeout |-> timeout,
                         elapsed |-> 0, polls |-> <<>>,
                         args |-> <<buf, AskNoACK, reUseTX, want_ack, timeout>>,
                         pre |-> [_ack |-> drv._ack, ce |-> ce],
                         ups |-> s.ups]
    /\ pc' = "pulse"
    /\ UNCHANGED <<phase, opened>>

SendCall == SendCallWith(Payloads, BOOLEAN, BOOLEAN, BOOLEAN, 0..MaxTimeout)

\* send of one payload that asks for acknowledgment where auto-ack is on
SendCallAcked == SendCallWith({<<1>>}, {FALSE}, BOOLEAN, BOOLEAN, 0..MaxTimeout)

\* send: the 1 ms sleep is over, the clock is read and the enable pin lowered
SendPulseEnd ==
    /\ pc = "pulse"
    /\ LET s == ce_set([Cur EXCEPT !.log = log, !.ups = snd.ups], FALSE)
       IN  /\ drv' = s.drv /\ dev' = s.dev /\ ce' = s.ce /\ log' = s.log
           /\ snd' = [snd EXCEPT !.ups = s.ups]
    /\ pc' = "polling"
    /\ UNCHANGED <<phase, last, opened>>

\* send: one pass of the while loop; the poll takes d ticks of the clock
SendPoll ==
    /\ pc = "polling"
    /\ SendLooping(snd.result, snd.elapsed, snd.timeout)
    /\ Len(snd.polls) < MaxPolls
    /\ \E d \in 1..MaxPollTicks :
          LET s == _reg_write([Cur EXCEPT !.log = log], NOP, None)
          IN  /\ drv' = s.drv /\ dev' = s.dev /\ ce' = s.ce /\ log' = s.log
              /\ snd' = [snd EXCEPT !.result = SendOutcome(s.drv._status),
                                    !.elapsed = @ + d,
                                    !.polls = Append(@, s.drv._status)]
    /\ UNCHANGED <<phase, last, pc, opened>>

\* send: the loop is left, the ACK payload is read or the flags are cleared,
\* and snd.result is returned
SendReturn ==
    /\ pc = "polling"
    /\ ~SendLooping(snd.result, snd.elapsed, snd.timeout)
    /\ LET s == send_finish([Cur EXCEPT !.log = log], snd.read_ack)
       IN  /\ drv' = s.drv /\ dev' = s.dev /\ ce' = s.ce /\ log' = s.log
    /\ last' = [op |-> "send", args |-> snd.args,
                pre |-> [_ack |-> snd.pre._ack, ce |-> snd.pre.ce, rx |-> dev.rx],
                ret |-> Some(snd.result), ups |-> snd.ups]
    /\ snd' = [snd EXCEPT !.timeout = 0, !.elapsed = 0, !.args = <<>>,
                          !.pre = NoSnd.pre]
    /\ pc' = "idle"
    /\ UNCHANGED <<phase, opened>>

\* nrf.open_rx_pipe(pipe_number, address), the arguments drawn from the given
\* sets
OpenRxPipeWith(Pipes, Addrs) ==
    /\ phase = "ready" /\ Quiet
    /\ \E pipe_number \in Pipes, address \in Addrs :
          /\ Ret(open_rx_pipe(Cur, pipe_number, address), "open_rx_pipe",
                 <<pipe_number, address>>)
          /\ opened' = IF pipe_number = 0 /\ last'.ret = Some(None)
                        THEN Some(address)
                        ELSE opened
    /\ UNCHANGED <<phase, pc, snd>>

\* nrf.open_rx_pipe(0, address)
OpenRxPipe0 == OpenRxPipeWith({0}, Addresses)

\* nrf.open_rx_pipe(pipe_number, address) with any pipe number, and an address
\* or none
OpenRxPipeAny == OpenRxPipeWith(PipeNumbers, {<<>>, <<1, 2, 3, 4, 5>>})

\* nrf.close_rx_pipe(pipe_number)
CloseRxPipe ==
    /\ phase = "ready" /\ Quiet
    /\ \E pipe_number \in PipeNumbers :
          Ret(close_rx_pipe(Cur, pipe_number), "close_rx_pipe", <<pipe_number>>)
    /\ UNCHANGED <<phase, pc, snd, opened>>

\* nrf.pipe() and nrf.pipe(pipe_number)
PipeCall ==
    /\ phase = "ready" /\ Quiet
    /\ \E pipe_number \in {None} \cup {Some(n) : n \in PipeNumbers} :
          Ret(pipe_with(Cur, pipe_number), "pipe", <<pipe_number>>)
    /\ UNCHANGED <<phase, pc, snd, opened>>

\* nrf.ack = (payload, pipe_number) with any pipe number
AssignAck ==
    /\ phase = "ready" /\ Quiet
    /\ \E payload \in {None} \cup {Some(b) : b \in AckPayloads},
          pipe_number \in PipeNumbers :
          Ret(ack_setter(Cur, <<payload, pipe_number>>), "ack", <<payload, pipe_number>>)
    /\ UNCHANGED <<phase, pc, snd, opened>>

\* nrf.open_tx_pipe(address)
OpenTxPipe ==
    /\ phase = "ready" /\ Quiet
    /\ \E address \in Addresses :
          Ret(open_tx_pipe(Cur, address), "open_tx_pipe", <<address>>)
    /\ UNCHANGED <<phase, pc, snd, opened>>

\* nrf.listen = rx
SetListen ==
    /\ phase = "ready" /\ Quiet
    /\ \E rx \in BOOLEAN : Ret(listen_set(Cur, rx), "listen", <<rx>>)
    /\ UNCHANGED <<phase, pc, snd, opened>>

\* nrf.power = isOn
SetPower ==
    /\ phase = "ready" /\ Quiet
    /\ \E isOn \in BOOLEAN : Ret(power_set(Cur, isOn), "power", <<isOn>>)
    /\ UNCHANGED <<phase, pc, snd, opened>>

\* rx = nrf.listen
GetListen ==
    /\ phase = "ready" /\ Quiet
    /\ Ret(listen_get(Cur), "listen_get", <<>>)
    /\ UNCHANGED <<phase, pc, snd, opened>>

\* nrf.send_fast(buf, AskNoACK, reUseTX), the arguments drawn from the given
\* sets
SendFastWith(Bufs, NoAcks, Reuses) ==
    /\ phase = "ready" /\ Quiet
    /\ \E buf \in Bufs, AskNoACK \in NoAcks, reUseTX \in Reuses :
          Ret(send_fast(Cur, buf, AskNoACK, reUseTX), "send_fast",
              <<buf, AskNoACK, reUseTX>>)
    /\ UNCHANGED <<phase, pc, snd, opened>>

\* nrf.send_fast(buf)
SendFastPlain == SendFastWith({<<1>>}, {FALSE}, {FALSE})

\* nrf.send_fast(buf, reUseTX=reUseTX) with either value of reUseTX
SendFastReuse == SendFastWith({<<1>>}, {FALSE}, BOOLEAN)

\* nrf.send_fast() with no payload given; the record has None for it (the
\* payloads given are never empty)
SendFastNoPayload ==
    /\ phase = "ready" /\ Quiet
    /\ Ret(send_fast_no_buf(Cur), "send_fast", <<None, FALSE, FALSE>>)
    /\ UNCHANGED <<phase, pc, snd, opened>>

\* nrf.fifo(tx, empty)
FifoCall ==
    /\ phase = "ready" /\ Quiet
    /\ \E tx \in BOOLEAN, empty \in {None, Some(TRUE), Some(FALSE)} :
          Ret(fifo(Cur, tx, empty), "fifo", <<tx, empty>>)
    /\ UNCHANGED <<phase, pc, snd, opened>>

\* construction with any payload length
ConstructLengths == ConstructWith(0..MaxPayloadLength, {TRUE})

\* nrf.open_rx_pipe(0, address) with one address
OpenRxPipe0One == OpenRxPipeWith({0}, {<<1, 2, 3, 4, 5>>})

\* payload = nrf.recv()
Recv ==
    /\ phase = "ready" /\ Quiet
    /\ Ret(recv(Cur), "recv", <<>>)
    /\ UNCHANGED <<phase, pc, snd, opened>>

\* nrf.clear_status_flags(dataReady, dataSent, maxRetry)
ClearStatusFlags ==
    /\ phase = "ready" /\ Quiet
    /\ \E dataReady \in BOOLEAN, dataSent \in BOOLEAN, maxRetry \in BOOLEAN :
          Ret(clear_status_flags(Cur, dataReady, dataSent, maxRetry),
              "clear_status_flags", <<dataReady, dataSent, maxRetry>>)
    /\ UNCHANGED <<phase, pc, snd, opened>>

\* payload = nrf.read_ack()
ReadAck ==
    /\ phase = "ready" /\ Quiet
    /\ Ret(read_ack(Cur), "read_ack", <<>>)
    /\ UNCHANGED <<phase, pc, snd, opened>>

\* The radio receives a payload on pipe 0, at any moment while it listens: one
\* of any length where the pipe takes dynamic lengths, else one of the width
\* set for the pipe (a width of 0 takes none).
DeviceReceives ==
    /\ DevListening(dev, ce, 0)
    /\ \E data \in RxPayloads \cup {[i \in 1..dev.reg[RX_PW_P0] |-> 7]} :
          /\ IF DevDynamic(dev, 0)
             THEN data \in RxPayloads
             ELSE Len(data) = dev.reg[RX_PW_P0] /\ data # <<>>
          /\ dev' = DevReceive(dev, 0, data)
    /\ last' = IF pc = "idle"
               THEN [op |-> "radio", args |-> <<>>, pre |-> <<>>, ret |-> None]
               ELSE last
    /\ UNCHANGED <<phase, drv, ce, log, pc, snd, opened>>

\* the number of attribute accesses made so far
Calls == IF "calls" \in DOMAIN last THEN last.calls ELSE 0

\* an attribute may be accessed
CanCall == phase = "ready" /\ pc = "idle" /\ Calls < MaxCalls

\* the access has returned or raised; the record of it (op "set" or "get",
\* args the attribute's name and the value assigned) keeps what the access
\* before it was
Called(s, op, args) ==
    /\ drv' = s.drv
    /\ dev' = s.dev
    /\ ce' = s.ce
    /\ log' = s.log
    /\ last' = [op |-> op, args |-> args, pre |-> Pre,
                ret |-> IF s.err # "" THEN Raised(s.err) ELSE Some(s.ret),
                ups |-> s.ups, deep |-> s.deep,
                prev |-> [op |-> last.op, args |-> last.args, ret |-> last.ret],
                calls |-> Calls + 1]

\* nrf.open_rx_pipe(pipe_number, address) with each of the six pipes, as one
\* of the calls counted
OpenRxPipeEach ==
    /\ CanCall
    /\ \E pipe_number \in 0..5, address \in Addresses :
          /\ Called(open_rx_pipe(Cur, pipe_number, address), "open_rx_pipe",
                    <<pipe_number, address>>)
          /\ opened' = IF pipe_number = 0 /\ last'.ret = Some(None)
                        THEN Some(address)
                        ELSE opened
    /\ UNCHANGED <<phase, pc, snd>>

\* nrf.close_rx_pipe(pipe_number) with each of the six pipes, as one of the
\* calls counted
CloseRxPipeEach ==
    /\ CanCall
    /\ \E pipe_number \in 0..5 :
          Called(close_rx_pipe(Cur, pipe_number), "close_rx_pipe", <<pipe_number>>)
    /\ UNCHANGED <<phase, pc, snd, opened>>

\* nrf.open_tx_pipe(address), as one of the calls counted
OpenTxPipeCounted ==
    /\ CanCall
    /\ \E address \in Addresses :
          Called(open_tx_pipe(Cur, address), "open_tx_pipe", <<address>>)
    /\ UNCHANGED <<phase, pc, snd, opened>>

\* nrf.arc = count
AssignArc ==
    /\ CanCall
    /\ \E count \in Arcs : Called(arc_set(Cur, count), "set", <<"arc", count>>)
    /\ UNCHANGED <<phase, pc, snd, opened>>

\* nrf.ard = t
AssignArd ==
    /\ CanCall
    /\ \E t \in Ards : Called(ard_set(Cur, t), "set", <<"ard", t>>)
    /\ UNCHANGED <<phase, pc, snd, opened>>

\* nrf.address_length = length
AssignAddressLength ==
    /\ CanCall
    /\ \E length \in AddressLengthValues : Called(address_length_setter(Cur, length), "set", <<"address_length", length>>)
    /\ UNCHANGED <<phase, pc, snd, opened>>

\* nrf.payload_length = length
AssignPayloadLength ==
    /\ CanCall
    /\ \E length \in PayloadLengthValues : Called(payload_length_set(Cur, length), "set", <<"payload_length", length>>)
    /\ UNCHANGED <<phase, pc, snd, opened>>

\* nrf.data_rate = speed
AssignDataRate ==
    /\ CanCall
    /\ \E speed \in DataRates : Called(data_rate_set(Cur, speed), "set", <<"data_rate", speed>>)
    /\ UNCHANGED <<phase, pc, snd, opened>>

\* nrf.pa_level = power
AssignPaLevel ==
    /\ CanCall
    /\ \E power \in PaLevels : Called(pa_level_set(Cur, power), "set", <<"pa_level", power>>)
    /\ UNCHANGED <<phase, pc, snd, opened>>

\* nrf.crc = length
AssignCrc ==
    /\ CanCall
    /\ \E length \in Crcs : Called(crc_set(Cur, length), "set", <<"crc", length>>)
    /\ UNCHANGED <<phase, pc, snd, opened>>

\* nrf.channel = channel
AssignChannel ==
    /\ CanCall
    /\ \E channel \in ChannelValues : Called(channel_setter(Cur, channel), "set", <<"channel", channel>>)
    /\ UNCHANGED <<phase, pc, snd, opened>>

\* value = nrf.arc
ReadArc ==
    /\ CanCall
    /\ Called(arc_get(Cur), "get", <<"arc">>)
    /\ UNCHANGED <<phase, pc, snd, opened>>

\* value = nrf.ard
ReadArd ==
    /\ CanCall
    /\ Called(ard_get(Cur), "get", <<"ard">>)
    /\ UNCHANGED <<phase, pc, snd, opened>>

\* value = nrf.address_length
ReadAddressLength ==
    /\ CanCall
    /\ Called(address_length_get(Cur), "get", <<"address_length">>)
    /\ UNCHANGED <<phase, pc, snd, opened>>

\* value = nrf.payload_length
ReadPayloadLength ==
    /\ CanCall
    /\ Called(payload_length_get(Cur), "get", <<"payload_length">>)
    /\ UNCHANGED <<phase, pc, snd, opened>>

\* value = nrf.data_rate
ReadDataRate ==
    /\ CanCall
    /\ Called(data_rate_get(Cur), "get", <<"data_rate">>)
    /\ UNCHANGED <<phase, pc, snd, opened>>

\* value = nrf.pa_level
ReadPaLevel ==
    /\ CanCall
    /\ Called(pa_level_get(Cur), "get", <<"pa_level">>)
    /\ UNCHANGED <<phase, pc, snd, opened>>

\* value = nrf.crc
ReadCrc ==
    /\ CanCall
    /\ Called(crc_get(Cur), "get", <<"crc">>)
    /\ UNCHANGED <<phase, pc, snd, opened>>

\* value = nrf.channel
ReadChannel ==
    /\ CanCall
    /\ Called(channel_get(Cur), "get", <<"channel">>)
    /\ UNCHANGED <<phase, pc, snd, opened>>

\* The radio finishes the transmission it is busy with, at any moment.
DeviceCompletes ==
    /\ dev.busy
    /\ \E sent \in BOOLEAN, ackpl \in {None} \cup {Some(a) : a \in RxAckPayloads} :
          /\ ~sent => DevNeedsAck(dev) /\ ackpl = None
          /\ ackpl # None => DevNeedsAck(dev)
          /\ dev' = DevComplete(dev, ce, sent, ackpl)
    /\ last' = IF pc = "idle"
               THEN [op |-> "radio", args |-> <<>>, pre |-> <<>>, ret |-> None]
               ELSE last
    /\ UNCHANGED <<phase, drv, ce, log, pc, snd, opened>>

\* The caller has looked at what the last operation did; its record (last,
\* log, snd) is put away before the next call.
Forget ==
    /\ pc = "idle" /\ last # NoLast
    /\ last' = NoLast
    /\ log' = <<>>
    /\ snd' = NoSnd
    /\ UNCHANGED <<phase, drv, ce, dev, pc, opened>>

\* construction and the configuration setters
NextConfig ==
    \/ Forget
    \/ Construct
    \/ SetAutoAck
    \/ SetDynamicPayloads
    \/ SetAck
    \/ InterruptConfig

SpecConfig == Init /\ [][NextConfig]_vars

\* construction, the blocking send and the radio
NextSend ==
    \/ Forget
    \/ ConstructDefaultIrq
    \/ SendCallAcked
    \/ SendPulseEnd
    \/ SendPoll
    \/ SendReturn
    \/ DeviceCompletes

\* the radio is there, fresh from reset
InitFresh ==
    /\ Init
    /\ dev.present /\ dev.reg = ResetRegs /\ dev.flags = 0
    /\ dev.tx = <<>> /\ dev.rx = <<>>

SpecSend == InitFresh /\ [][NextSend]_vars

\* SendReturn can be taken exactly when the loop has been left: it has no
\* other guard and always changes pc
SendReturnEnabled ==
    pc = "polling" /\ ~SendLooping(snd.result, snd.elapsed, snd.timeout)

\* The thread that called send keeps running: the sleep ends, the loop body
\* and the statements after the loop are executed when they are reached.  The
\* caller and the radio are under no obligation.
\* The last conjunct is WF_vars(SendReturn) with ENABLED <<SendReturn>>_vars
\* written out as SendReturnEnabled.
SendRuns ==
    /\ WF_vars(SendPulseEnd)
    /\ WF_vars(SendPoll)
    /\ ([]<>(~SendReturnEnabled) \/ []<><<SendReturn>>_vars)

\* construction with every optional argument left at its default but the
\* payload length
ConstructPlain ==
    /\ phase = "new" /\ Quiet
    /\ LET s == __init__(Cur, 76, 2, 5, TRUE, TRUE, TRUE, TRUE, TRUE)
       IN  /\ Ret(s, "__init__", <<TRUE, TRUE, TRUE, TRUE, TRUE>>)
           /\ phase' = IF s.ret = "RuntimeError" THEN "failed" ELSE "ready"
    /\ UNCHANGED <<pc, snd, opened>>

\* send of one payload, AskNoACK and reUseTX left at their defaults
SendCallPlain == SendCallWith({<<1>>}, {FALSE}, {FALSE}, BOOLEAN, 0..MaxTimeout)

NextSendLive ==
    \/ Forget
    \/ ConstructPlain
    \/ SendCallPlain
    \/ SendPulseEnd
    \/ SendPoll
    \/ SendReturn
    \/ DeviceCompletes

SpecSendLive == InitFresh /\ [][NextSendLive]_vars /\ SendRuns

\* send of one payload with every optional argument at its default and a
\* deadline of one tick
SendCallBrief == SendCallWith({<<1>>}, {FALSE}, {FALSE}, {FALSE}, {1})

\* the pipe addresses, the two roles and transmissions
NextPipes ==
    \/ Forget
    \/ ConstructDefaultIrq
    \/ OpenRxPipe0
    \/ OpenTxPipe
    \/ SetListen
    \/ SendFastPlain
    \/ SendCallBrief
    \/ SendPulseEnd
    \/ SendPoll
    \/ SendReturn
    \/ DeviceCompletes

SpecPipes == InitFresh /\ [][NextPipes]_vars

\* reception: construction, pipe 0, the RX role, arriving payloads and recv
NextRecv ==
    \/ Forget
    \/ ConstructLengths
    \/ OpenRxPipe0One
    \/ SetListen
    \/ DeviceReceives
    \/ Recv

SpecRecv == InitFresh /\ [][NextRecv]_vars

\* non-blocking transmission: send_fast, the radio's answer, and the calls
\* that follow it up
NextAck ==
    \/ Forget
    \/ ConstructPlain
    \/ SendFastPlain
    \/ DeviceCompletes
    \/ ClearStatusFlags
    \/ ReadAck

SpecAck == InitFresh /\ [][NextAck]_vars

\* construction and the configuration attributes
NextAccess ==
    \/ ConstructPlain
    \/ AssignArc
    \/ AssignArd
    \/ AssignAddressLength
    \/ AssignPayloadLength
    \/ AssignDataRate
    \/ AssignPaLevel
    \/ AssignCrc
    \/ AssignChannel
    \/ ReadArc
    \/ ReadArd
    \/ ReadAddressLength
    \/ ReadPayloadLength
    \/ ReadDataRate
    \/ ReadPaLevel
    \/ ReadCrc
    \/ ReadChannel

SpecAccess == InitFresh /\ [][NextAccess]_vars

\* the operations that take a pipe number, and the radio receiving
NextPipeArgs ==
    \/ Forget
    \/ ConstructPlain
    \/ OpenRxPipeAny
    \/ CloseRxPipe
    \/ PipeCall
    \/ AssignAck
    \/ SetListen
    \/ DeviceReceives

SpecPipeArgs == InitFresh /\ [][NextPipeArgs]_vars

\* construction and the opening and closing of the six pipes
NextPipeOps ==
    \/ ConstructDefaultIrq
    \/ OpenRxPipeEach
    \/ CloseRxPipeEach
    \/ OpenTxPipeCounted

SpecPipeOps == InitFresh /\ [][NextPipeOps]_vars

\* the TX pipe: construction, the auto-ack feature, transmissions and the
\* ACK payloads that come back, and open_tx_pipe
NextTxPipe ==
    \/ Forget
    \/ ConstructDefaultIrq
    \/ SetAutoAck
    \/ OpenRxPipe0One
    \/ OpenTxPipe
    \/ SendFastPlain
    \/ DeviceCompletes
    \/ ReadAck

SpecTxPipe == InitFresh /\ [][NextTxPipe]_vars

\* the roles and the power: listen, power, both ways of sending, and the radio
NextListen ==
    \/ Forget
    \/ ConstructPlain
    \/ SetListen
    \/ GetListen
    \/ SetPower
    \/ SendFastPlain
    \/ SendCallBrief
    \/ SendPulseEnd
    \/ SendPoll
    \/ SendReturn
    \/ DeviceCompletes

SpecListen == InitFresh /\ [][NextListen]_vars

\* the FIFOs: construction, send_fast with and without a payload, the
\* radio's answer, the change of role, and fifo
NextFifo ==
    \/ Forget
    \/ ConstructDefaultIrq
    \/ SendFastReuse
    \/ SendFastNoPayload
    \/ FifoCall
    \/ SetListen
    \/ DeviceCompletes

SpecFifo == InitFresh /\ [][NextFifo]_vars

\* nrf.send_fast(buf, AskNoACK, reUseTX) with a payload and either value of
\* each flag
SendFastAny == SendFastWith({<<1>>}, BOOLEAN, BOOLEAN)

\* non-blocking transmission with every flag: construction, the auto-ack
\* feature, the change of role, send_fast with any arguments, and the radio's
\* answer (an ACK payload that comes back raises the data-ready flag)
NextSendFast ==
    \/ Forget
    \/ ConstructDefaultIrq
    \/ SetAutoAck
    \/ SetListen
    \/ SendFastAny
    \/ DeviceCompletes

SpecSendFast == InitFresh /\ [][NextSendFast]_vars

\* the buffers given to send_fast, one of each length the assert lets
\* through, none of their bytes zero
Buffers == {[i \in 1..n |-> i] : n \in 0..MaxPayloadLength}

\* nrf.send_fast(buf) with a buffer of any length
SendFastLengths == SendFastWith(Buffers, {FALSE}, {FALSE})

\* payloads of every length: construction with any payload length and
\* send_fast with a buffer of any length
NextFit ==
    \/ Forget
    \/ ConstructLengths
    \/ SendFastLengths

SpecFit == InitFresh /\ [][NextFit]_vars

\* nrf.power = isOn, as one of the calls counted
AssignPower ==
    /\ CanCall
    /\ \E isOn \in BOOLEAN : Called(power_set(Cur, isOn), "set", <<"power", isOn>>)
    /\ UNCHANGED <<phase, pc, snd, opened>>

\* nrf.listen = rx, as one of the calls counted
AssignListen ==
    /\ CanCall
    /\ \E rx \in BOOLEAN : Called(listen_set(Cur, rx), "set", <<"listen", rx>>)
    /\ UNCHANGED <<phase, pc, snd, opened>>

\* nrf.send_fast(buf), as one of the calls counted
SendFastCounted ==
    /\ CanCall
    /\ Called(send_fast(Cur, <<1>>, FALSE, FALSE), "send_fast", <<<<1>>, FALSE, FALSE>>)
    /\ UNCHANGED <<phase, pc, snd, opened>>

\* the registers shared by several attributes: construction and every
\* operation that rewrites part of SETUP_RETR, RF_SETUP or CONFIG
NextShared ==
    \/ Construct
    \/ AssignArc
    \/ AssignArd
    \/ AssignDataRate
    \/ AssignPaLevel
    \/ AssignCrc
    \/ AssignPower
    \/ AssignListen
    \/ SendFastCounted

SpecShared == InitFresh /\ [][NextShared]_vars

\* the driver as the constructor leaves it on a fresh radio, every argument at
\* its default
Constructed ==
    __init__([drv |-> NoDrv,
              dev |-> [present |-> TRUE, reg |-> ResetRegs, addr |-> ResetAddrs,
                       flags |-> 0, tx |-> <<>>, rx |-> <<>>, reuse |-> FALSE,
                       busy |-> FALSE],
              ce |-> FALSE, log |-> <<>>, ret |-> None, err |-> "", ups |-> <<>>,
              nest |-> 0, deep |-> 0],
             76, 2, 5, TRUE, TRUE, TRUE, TRUE, TRUE)

\* the values EN_AA, DYNPD and FEATURE are started from: all pipes or none (and
\* for DYNPD pipe 0 alone), and every value of the three FEATURE bits
AutoAckValues == {0, 63}
DynpdValues == {0, 1, 63}
FeatureValues == 0..7

\* the driver constructed, with EN_AA, DYNPD and FEATURE and their shadows
\* holding any combination of values
InitFeature ==
    /\ phase = "ready"
    /\ \E aa \in AutoAckValues, dyn \in DynpdValues, features \in FeatureValues :
          /\ drv = [Constructed.drv EXCEPT !._auto_ack = aa, !._dyn_pl = dyn,
                                          !._features = features]
          /\ dev = [Constructed.dev EXCEPT !.reg[EN_AA] = aa, !.reg[DYNPD] = dyn,
                                          !.reg[FEATURE] = features]
    /\ ce = FALSE
    /\ log = <<>>
    /\ last = NoLast
    /\ pc = "idle"
    /\ snd = NoSnd
    /\ opened = None

\* the two features assigned from any combination of register values
NextFeature ==
    \/ Forget
    \/ SetAutoAck
    \/ SetDynamicPayloads

SpecFeature == InitFeature /\ [][NextFeature]_vars

Next ==
    \/ Forget
    \/ Construct
    \/ SetAutoAck
    \/ SetDynamicPayloads
    \/ SetAck
    \/ InterruptConfig
    \/ SendCall
    \/ SendPulseEnd
    \/ SendPoll
    \/ SendReturn
    \/ DeviceCompletes
    \/ OpenRxPipeAny
    \/ CloseRxPipe
    \/ PipeCall
    \/ AssignAck
    \/ OpenTxPipe
    \/ SetListen
    \/ SendFastPlain
    \/ Recv
    \/ DeviceReceives
    \/ ClearStatusFlags
    \/ ReadAck
    \/ AssignArc \/ AssignArd \/ AssignAddressLength \/ AssignPayloadLength
    \/ AssignDataRate \/ AssignPaLevel \/ AssignCrc \/ AssignChannel
    \/ ReadArc \/ ReadArd \/ ReadAddressLength \/ ReadPayloadLength
    \/ ReadDataRate \/ ReadPaLevel \/ ReadCrc \/ ReadChannel

Spec == Init /\ [][Next]_vars

-----------------------------------------------------------------------------
(* The claims *)

\* the bus transactions of the last operation that wrote register reg
WritesTo(reg) == {i \in DOMAIN log : log[i].cmd = 32 + reg}

\* the mask bits 6, 5, 4 of CONFIG for interrupt enables dr, ds, df
MaskBits(dr, ds, df) == 64 * B2I(~dr) + 32 * B2I(~ds) + 16 * B2I(~df)

\* C1: after initialisation with any constructor flags and any sequence of
\* assignments to auto_ack, dynamic_payloads and ack, dynamic payloads being
\* enabled implies that auto-ack is enabled on all six pipes.
C1_DynImpliesAutoAck ==
    (phase = "ready" /\ pc = "idle" /\ dynamic_payloads(Cur) # 0)
        => (drv._auto_ack = 63 /\ dev.reg[EN_AA] = 63)

\* C2: assigning dynamic_payloads = True while auto-ack is disabled leaves
\* auto-ack enabled on all six pipes when the assignment returns.
C2_EnableDynEnablesAutoAck ==
    (last.op = "dynamic_payloads" /\ last.args[1] /\ last.pre.drv._auto_ack = 0)
        => (drv._auto_ack = 63 /\ dev.reg[EN_AA] = 63)

\* C3: assigning auto_ack = False while the dynamic_payloads attribute is on
\* leaves dynamic payloads disabled: the getter is false, DYNPD is 0 and the
\* dynamic-payload bit of FEATURE is clear.
C3_DisableAutoAckDisablesDyn ==
    (last.op = "auto_ack" /\ ~last.args[1] /\ dynamic_payloads(last.pre) # 0)
        => /\ dynamic_payloads(Cur) = 0
           /\ drv._dyn_pl = 0
           /\ dev.reg[DYNPD] = 0
           /\ And(dev.reg[FEATURE], 4) = 0
           /\ And(drv._features, 4) = 0

C3_Witness ==
    /\ last.op = "auto_ack" /\ ~last.args[1]
    /\ dynamic_payloads(last.pre) # 0
    /\ last.pre.dev.reg[DYNPD] = 63
    /\ dev.reg[DYNPD] = 0

\* C4: assigning dynamic_payloads = False does not disable auto-ack: if
\* auto-ack was enabled before, it still is afterwards, and EN_AA is not
\* written.
C4_DisableDynKeepsAutoAck ==
    (last.op = "dynamic_payloads" /\ ~last.args[1] /\ last.pre.drv._auto_ack # 0)
        => /\ drv._auto_ack # 0
           /\ dev.reg[EN_AA] = last.pre.dev.reg[EN_AA]
           /\ WritesTo(EN_AA) = {}

\* C5: assigning auto_ack = True does not enable dynamic payloads: if they
\* were disabled before, they still are afterwards, and DYNPD is not written.
C5_EnableAutoAckKeepsDyn ==
    (last.op = "auto_ack" /\ last.args[1] /\ dynamic_payloads(last.pre) = 0)
        => /\ dynamic_payloads(Cur) = 0
           /\ WritesTo(DYNPD) = {}

\* C6: after ack = (payload, pipe) with a payload the custom-ack-payload bit
\* of FEATURE is set, and after ack = (None, pipe) it is clear, whatever it
\* was before.
C6_AckBitFollowsAck ==
    last.op = "ack" => (And(dev.reg[FEATURE], 2) # 0 <=> last.args[1] # None)

\* C7: for every combination of the three interrupt-enable constructor flags
\* the CONFIG value written during initialisation has CRC on with the 2-byte
\* scheme, power-up and RX-role clear, and mask bits 6, 5, 4 equal to
\* NOT irq_DR, NOT irq_DS, NOT irq_DF.
C7_InitConfigValue ==
    (last.op = "__init__" /\ phase = "ready")
        => /\ WritesTo(CONFIG) # {}
           /\ \A i \in WritesTo(CONFIG) :
                 log[i].data[1] = 12 + MaskBits(last.args[3], last.args[4], last.args[5])

\* C8: after interrupt_config(onMaxARC, onDataSent, onDataRecv) CONFIG bits
\* 4, 5, 6 equal NOT onMaxARC, NOT onDataSent, NOT onDataRecv and the low four
\* CONFIG bits are as before the call.
C8_InterruptConfigBits ==
    last.op = "interrupt_config"
        => /\ And(dev.reg[CONFIG], 112)
                = MaskBits(last.args[3], last.args[2], last.args[1])
           /\ And(dev.reg[CONFIG], 15) = And(last.pre.dev.reg[CONFIG], 15)

\* what C9 says of a failed initialisation: nothing but the two flush
\* commands went over the bus, and no register changed
OnlyFlushed ==
    /\ Len(log) = 2
    /\ log[1].cmd = FLUSH_RX /\ log[2].cmd = FLUSH_TX
    /\ dev.reg = last.pre.dev.reg

\* C9 as stated: initialisation fails exactly when the low 4 bits of the
\* status byte returned by the second flush (flush TX) differ from 0b1110, and
\* then nothing but the two flushes has been written.
C9_FailsIffLow4Not1110 ==
    last.op = "__init__"
        => /\ log[2].cmd = FLUSH_TX
           /\ (phase = "failed" <=> And(log[2].st, 15) # 14)
           /\ (phase = "failed" => OnlyFlushed)

\* C9 as amended: initialisation fails exactly when bits 3..1 of the status
\* byte returned by the second flush (flush TX) differ from 0b111; bit 0, TX
\* FIFO full, is not looked at.  When it fails nothing but the two flushes has
\* been written.
C9_FailsIffRxFieldNot111 ==
    last.op = "__init__"
        => /\ log[2].cmd = FLUSH_TX
           /\ (phase = "failed" <=> And(log[2].st, 14) # 14)
           /\ (phase = "failed" => OnlyFlushed)

C9_Witness ==
    /\ last.op = "__init__" /\ phase = "failed"
    /\ And(log[2].st, 14) # 14
    /\ OnlyFlushed

\* the status polls (no-op commands) among the last operation's transactions
NopPolls == SelectSeq(log, LAMBDA e : e.cmd = NOP)

\* C10: send returns 1 when the first status poll of its loop that shows a
\* completion flag shows data-sent, 2 when that poll shows max-retry without
\* data-sent, 0 when no poll before the deadline shows either flag; the loop
\* polls no more once a poll has shown a flag (the one further no-op on the
\* bus is the RX probe of read_ack, made when read_ack was asked for and the
\* result is 1).
C10_SendResult ==
    (pc = "idle" /\ last.op = "send")
        => LET P == snd.polls
               n == Len(P)
           IN  /\ \A i \in 1..(n - 1) : And(P[i], 48) = 0
               /\ snd.result = 1 <=> (n > 0 /\ And(P[n], 32) # 0)
               /\ snd.result = 2 <=> (n > 0 /\ And(P[n], 48) = 16)
               /\ snd.result = 0 <=> (\A i \in 1..n : And(P[i], 48) = 0)
               /\ Len(NopPolls) = n + (IF snd.read_ack /\ snd.result = 1 THEN 1 ELSE 0)
               /\ \A i \in 1..n : NopPolls[i].st = P[i]

C10_Witness ==
    /\ pc = "idle" /\ last.op = "send"
    /\ Len(snd.polls) = 2
    /\ And(snd.polls[1], 48) = 0
    /\ And(snd.polls[2], 48) = 16
    /\ snd.result = 2

\* C11: every call of the blocking send eventually returns, whatever status
\* bytes the radio reports, as long as the clock advances with every poll.
C11_SendReturns == (pc # "idle") ~> (pc = "idle")

\* a send that returned at the deadline, no poll having shown a flag
C11_Witness ==
    /\ pc = "idle" /\ last.op = "send"
    /\ snd.result = 0
    /\ Len(snd.polls) >= 1
    /\ \A i \in DOMAIN snd.polls : And(snd.polls[i], 48) = 0

\* the cap on the polls followed never stops a loop that the code continues
C11_PollsWithinCap ==
    (pc = "polling" /\ SendLooping(snd.result, snd.elapsed, snd.timeout))
        => Len(snd.polls) < MaxPolls

\* what recv returns for the RX payload `data` under the driver's settings:
\* the payload itself with dynamic payloads, payload_length bytes without
Received(data) ==
    IF dynamic_payloads(Cur) # 0 THEN data ELSE PadTo(data, drv._payload_length)

\* C12: when send was called with read_ack set and its outcome is Sent, the
\* ACK payload (the payload on top of the RX FIFO when the loop was left) is
\* fetched from the FIFO and stored in the cached ack slot, the slot staying
\* as it was when the acknowledgment brought none; in every other case
\* (read_ack not set, or outcome Failed or TimedOut) the last thing send puts
\* on the bus is a write of all three flag bits to STATUS, and the cached ack
\* payload is as it was before the call.
C12_AckFetchedOrFlagsCleared ==
    (pc = "idle" /\ last.op = "send")
        => IF snd.read_ack /\ snd.result = 1
           THEN IF last.pre.rx # <<>>
                THEN /\ drv._ack = Some(Received(Head(last.pre.rx).data))
                     /\ dev.rx = Tail(last.pre.rx)
                     /\ \E i \in DOMAIN log : log[i].cmd = R_RX_PAYLOAD
                ELSE drv._ack = last.pre._ack
           ELSE /\ log[Len(log)].cmd = 32 + STATUS
                /\ log[Len(log)].data = <<112>>
                /\ drv._ack = last.pre._ack
                /\ dev.rx = last.pre.rx

\* a send that fetched the payload its acknowledgment brought
C12_Witness ==
    /\ pc = "idle" /\ last.op = "send"
    /\ snd.read_ack /\ snd.result = 1
    /\ last.pre._ack = None
    /\ last.pre.rx # <<>>
    /\ drv._ack = Some(<<5>>)

\* a send that was not asked for the ACK payload, cleared the flags and left
\* the payload in the RX FIFO
C12_WitnessCleared ==
    /\ pc = "idle" /\ last.op = "send"
    /\ ~snd.read_ack /\ snd.result = 1
    /\ last.pre.rx # <<>>
    /\ dev.flags = 0

\* the first n bytes of the radio's address register reg
AddrPrefix(d, reg, n) == SubSeq(d.addr[reg], 1, n)

RecvSize(before) ==
    IF dynamic_payloads(before) = 0
    THEN before.drv._payload_length
    ELSE DevOut(before.dev, R_RX_PL_WID, 1)[1]

\* C14: every call of recv reads exactly payload_length bytes when dynamic
\* payloads are disabled (payload_length from 0 to 32) and exactly the number
\* of bytes the payload-width query reports when they are enabled; it issues
\* one payload-read transaction, which takes the top entry off the RX FIFO
\* when there is one, and after it, as its last transaction, writes a clear
\* of all three status flags.
C14_RecvReadsOnePayload ==
    last.op = "recv"
        => LET n == Len(log)
           IN  /\ n = IF dynamic_payloads(last.pre) = 0 THEN 2 ELSE 3
               /\ n = 3 => log[1].cmd = R_RX_PL_WID
               /\ log[n - 1].cmd = R_RX_PAYLOAD
               /\ log[n - 1].n = RecvSize(last.pre)
               /\ Len(last.ret[1]) = RecvSize(last.pre)
               /\ log[n].cmd = 32 + STATUS /\ log[n].data = <<112>>
               /\ dev.flags = 0
               /\ dev.rx = IF last.pre.dev.rx # <<>> /\ RecvSize(last.pre) > 0
                           THEN Tail(last.pre.dev.rx)
                           ELSE last.pre.dev.rx

\* recv of a 32-byte payload with dynamic payloads off
C14_Witness ==
    /\ last.op = "recv"
    /\ dynamic_payloads(last.pre) = 0
    /\ last.pre.drv._payload_length = 32
    /\ Len(last.pre.dev.rx) = 2
    /\ Len(last.ret[1]) = 32
    /\ Len(dev.rx) = 1

\* recv of a 3-byte payload with dynamic payloads on
C14_WitnessDynamic ==
    /\ last.op = "recv"
    /\ dynamic_payloads(last.pre) # 0
    /\ last.pre.dev.rx # <<>>
    /\ last.ret = Some(<<8, 9, 7>>)
    /\ last.pre.dev.flags = 64

\* C15: if the status flags have been cleared after a send_fast whose
\* acknowledgment carried a payload (the payload is in the RX FIFO, no flag is
\* raised) and read_ack is called then, read_ack retrieves nothing: it reads
\* no payload and leaves the cached ack payload unchanged.
C15_ReadAckAfterClearGetsNothing ==
    (last.op = "read_ack" /\ last.pre.dev.rx # <<>> /\ last.pre.dev.flags = 0)
        => /\ \A i \in DOMAIN log : log[i].cmd # R_RX_PAYLOAD
           /\ drv._ack = last.pre.drv._ack
           /\ dev.rx = last.pre.dev.rx

\* the values each configuration attribute is documented to take
ValidValues(attr) ==
    CASE attr = "channel" -> 0..125
      [] attr = "address_length" -> 3..5
      [] attr = "payload_length" -> 0..32
      [] attr = "arc" -> 0..15
      [] attr = "ard" -> {250 * k : k \in 1..16}
      [] attr = "data_rate" -> {1, 2, 250}
      [] attr = "pa_level" -> {-18, -12, -6, 0}
      [] attr = "crc" -> 0..2

\* the last access assigned a value to one of the attributes attrs
Assigned(attrs) == last.op = "set" /\ last.args[1] \in attrs

\* the register writes among the last operation's bus transactions
BusWrites == {i \in DOMAIN log : log[i].cmd >= 32 /\ log[i].cmd < 64}

\* C16: round trip: for every valid input of channel, address_length, arc,
\* ard, data_rate, pa_level and crc, reading the attribute immediately after
\* setting it returns the value that was set.
C16_GetAfterSet ==
    (/\ last.op = "get"
     /\ last.args[1] \in {"channel", "address_length", "arc", "ard", "data_rate",
                          "pa_level", "crc"}
     /\ last.prev.op = "set"
     /\ last.prev.args[1] = last.args[1]
     /\ last.prev.args[2] \in ValidValues(last.args[1]))
        => last.ret = Some(last.prev.args[2])

\* ard read back after it was set to its largest value
C16_Witness ==
    /\ last.op = "get" /\ last.args = <<"ard">>
    /\ last.prev.op = "set" /\ last.prev.args = <<"ard", 4000>>
    /\ last.ret = Some(4000)
    /\ dev.reg[SETUP_RETR] = 243

\* C17: for every out-of-range input to the setter of channel,
\* address_length, payload_length, arc, ard, data_rate, pa_level or crc the
\* setter fails with AssertionError, issues no bus write, and leaves every
\* shadow field and every register of the radio as it was before the call.
C17_InvalidInputRejected ==
    (last.op = "set" /\ last.args[2] \notin ValidValues(last.args[1]))
        => /\ last.ret = Raised("AssertionError")
           /\ BusWrites = {}
           /\ drv = last.pre.drv
           /\ dev = last.pre.dev

\* ard assigned a value in range that is no multiple of 250
C17_Witness ==
    /\ last.op = "set" /\ last.args = <<"ard", 300>>
    /\ last.ret = Raised("AssertionError")
    /\ log = <<>>

\* the radio's register holds value v in the field of attribute attr
Holds(d, attr, v) ==
    CASE attr = "arc" -> And(d.reg[SETUP_RETR], 15) = v
      [] attr = "ard" -> Shr(And(d.reg[SETUP_RETR], 240), 4) = (v - 250) \div 250
      [] attr = "data_rate" ->
            And(d.reg[RF_SETUP], 40) = (IF v = 1 THEN 0 ELSE IF v = 2 THEN 8 ELSE 32)
      [] attr = "pa_level" -> And(d.reg[RF_SETUP], 6) = (v + 18) \div 3
      [] attr = "crc" ->
            And(d.reg[CONFIG], 12) = (IF v = 0 THEN 0 ELSE IF v = 1 THEN 8 ELSE 12)
      [] attr = "channel" -> d.reg[RF_CH] = v
      [] attr = "address_length" -> d.reg[SETUP_AW] = v - 2

\* C19: write avoidance for arc, ard, data_rate, pa_level and crc: assigning
\* a valid value that differs from the register's current field issues
\* exactly one bus write, and assigning the same value again immediately
\* afterwards issues no bus write.
C19_WriteOnlyOnChange ==
    (/\ Assigned({"arc", "ard", "data_rate", "pa_level", "crc"})
     /\ last.args[2] \in ValidValues(last.args[1]))
        => /\ ~Holds(last.pre.dev, last.args[1], last.args[2])
                => Cardinality(BusWrites) = 1
           /\ (last.prev.op = "set" /\ last.prev.args = last.args)
                => BusWrites = {}

\* arc assigned 7 twice: the second assignment only reads
C19_Witness ==
    /\ last.op = "set" /\ last.args = <<"arc", 7>>
    /\ last.prev.op = "set" /\ last.prev.args = <<"arc", 7>>
    /\ dev.reg[SETUP_RETR] = 87
    /\ BusWrites = {}
    /\ log # <<>>

\* C20 as stated: write avoidance for channel and address_length: assigning
\* either attribute the value the radio already holds issues no bus write.
C20_NoWriteWhenHeld ==
    (/\ Assigned({"channel", "address_length"})
     /\ last.args[2] \in ValidValues(last.args[1])
     /\ Holds(last.pre.dev, last.args[1], last.args[2]))
        => BusWrites = {}

\* C20 as amended: assigning channel or address_length a valid value issues
\* exactly one bus write, of the value to the attribute's register, also when
\* the radio already holds that value.
C20_AlwaysOneWrite ==
    (/\ Assigned({"channel", "address_length"})
     /\ last.args[2] \in ValidValues(last.args[1]))
        => /\ Len(log) = 1
           /\ BusWrites = {1}
           /\ log[1].cmd = 32 + (IF last.args[1] = "channel" THEN RF_CH ELSE SETUP_AW)
           /\ Holds(dev, last.args[1], last.args[2])

\* channel assigned the value the radio holds, written all the same
C20_Witness ==
    /\ last.op = "set" /\ last.args = <<"channel", 76>>
    /\ last.pre.dev.reg[RF_CH] = 76
    /\ BusWrites = {1}

\* the pipe number the last operation was given: Some(n), or None when it
\* takes none or was given none
PipeGiven ==
    CASE last.op \in {"open_rx_pipe", "close_rx_pipe"} -> Some(last.args[1])
      [] last.op = "pipe" -> last.args[1]
      [] last.op = "ack" -> Some(last.args[2])
      [] OTHER -> None

\* C18: open_rx_pipe, close_rx_pipe, pipe and the assignment to ack fail with
\* AssertionError when the pipe number is outside 0..5, and they do so before
\* any bus transaction, read or write, so that the shadow status byte is as
\* it was before the call.
C18_BadPipeRejectedLocally ==
    (PipeGiven # None /\ PipeGiven[1] \notin 0..5)
        => /\ last.ret = Raised("AssertionError")
           /\ log = <<>>
           /\ drv._status = last.pre.drv._status

\* the three operations that test the pipe number before anything else
C18_OthersRejectLocally ==
    (last.op \in {"close_rx_pipe", "pipe", "ack"}
     /\ PipeGiven # None /\ PipeGiven[1] \notin 0..5)
        => /\ last.ret = Raised("AssertionError")
           /\ log = <<>>
           /\ drv = last.pre.drv /\ dev = last.pre.dev

\* the two features as the driver and the radio hold them agree: each shadow
\* equals its register, each feature is on for all six pipes or for none,
\* and dynamic payloads are on only together with auto-ack
FeaturesConsistent(p) ==
    /\ p.drv._auto_ack = p.dev.reg[EN_AA] /\ p.drv._auto_ack \in {0, 63}
    /\ p.drv._dyn_pl = p.dev.reg[DYNPD] /\ p.drv._dyn_pl \in {0, 63}
    /\ p.drv._features = p.dev.reg[FEATURE]
    /\ (p.drv._dyn_pl = 63) = (And(p.drv._features, 4) # 0)
    /\ (p.drv._dyn_pl = 63) => (p.drv._auto_ack = 63)

\* the value the attribute of the last assignment had before it
FeatureHeld(attr, p) ==
    IF attr = "auto_ack" THEN auto_ack(p) # 0 ELSE dynamic_payloads(p) # 0

\* C21: assigning auto_ack or dynamic_payloads the value it already has, in a
\* state where both features are consistent, issues no write to EN_AA, DYNPD
\* or FEATURE.
C21_NoWriteWhenFeatureHeld ==
    (/\ last.op \in {"auto_ack", "dynamic_payloads"}
     /\ FeaturesConsistent(last.pre)
     /\ FeatureHeld(last.op, last.pre) = last.args[1])
        => /\ WritesTo(EN_AA) = {}
           /\ WritesTo(DYNPD) = {}
           /\ WritesTo(FEATURE) = {}

\* the address a closed pipe is left with: five bytes for pipes 0 and 1, one
\* byte for pipes 2..5
Sentinel(p) ==
    IF p = 0 THEN <<231, 231, 231, 231, 231>>
    ELSE IF p = 1 THEN <<194, 194, 194, 194, 194>>
    ELSE <<193 + p>>

\* the address the radio holds for pipe p: the whole register of pipes 0 and
\* 1, the one byte of pipes 2..5
PipeAddr(d, p) ==
    IF p < 2 THEN d.addr[RX_ADDR_P0 + p] ELSE <<d.reg[RX_ADDR_P0 + p]>>

\* bit p of the mask m is set
PipeBit(m, p) == And(m, Shl(1, p)) # 0

\* C22: close_rx_pipe(p), for every p in 0..5, resets pipe p's address to its
\* sentinel (five bytes 0xE7 for pipe 0, five bytes 0xC2 for pipe 1, the
\* single byte 0xC1+p for pipes 2..5), leaves bit p of the open-pipes mask
\* clear, and writes the mask register if and only if bit p was set before
\* the call; for pipe 0 the cached pipe-0 RX address also becomes the
\* sentinel.
C22_CloseRxPipe ==
    (last.op = "close_rx_pipe" /\ last.args[1] \in 0..5)
        => /\ last.ret = Some(None)
           /\ PipeAddr(dev, last.args[1]) = Sentinel(last.args[1])
           /\ ~PipeBit(drv._open_pipes, last.args[1])
           /\ ~PipeBit(dev.reg[EN_RXADDR], last.args[1])
           /\ (WritesTo(EN_RXADDR) # {})
                <=> PipeBit(last.pre.drv._open_pipes, last.args[1])
           /\ last.args[1] = 0 => drv.pipe0_read_addr = Some(Sentinel(0))
           /\ last.args[1] # 0 => drv.pipe0_read_addr = last.pre.drv.pipe0_read_addr

\* an open pipe 5 with an address of its own is closed
C22_Witness ==
    /\ last.op = "close_rx_pipe" /\ last.args[1] = 5
    /\ PipeBit(last.pre.dev.reg[EN_RXADDR], 5)
    /\ last.pre.dev.reg[RX_ADDR_P0 + 5] = 5
    /\ dev.reg[RX_ADDR_P0 + 5] = 198
    /\ WritesTo(EN_RXADDR) # {}

\* pipe 0 is closed after open_rx_pipe(0, A) cached A
C22_WitnessPipe0 ==
    /\ last.op = "close_rx_pipe" /\ last.args[1] = 0
    /\ last.pre.drv.pipe0_read_addr = Some(<<1, 2, 3, 4, 5>>)
    /\ drv.pipe0_read_addr = Some(Sentinel(0))
    /\ dev.addr[RX_ADDR_P0] = Sentinel(0)

\* a pipe that was not open is closed: the mask register is not written
C22_WitnessClosed ==
    /\ last.op = "close_rx_pipe" /\ last.args[1] = 1
    /\ ~PipeBit(last.pre.drv._open_pipes, 1)
    /\ WritesTo(EN_RXADDR) = {}

\* what the last operation wrote to register reg, write by write
DataWritten(reg) ==
    LET at == SelectSeq([i \in DOMAIN log |-> i], LAMBDA i : log[i].cmd = 32 + reg)
    IN  [k \in DOMAIN at |-> log[at[k]].data]

\* what open_rx_pipe(p, address) is to write to the pipe's address register
AddressBytes(p, address) ==
    IF p < 2 THEN address ELSE <<address[Len(address)]>>

\* C23: open_rx_pipe(p, address) writes the full address to the pipe's
\* address register when p is 0 or 1 and exactly one byte (the address's
\* final byte) when p is 2..5; it leaves bit p of the open-pipes mask set,
\* writing the mask register only if the bit was clear; and it changes the
\* cached pipe-0 RX address only when p is 0.
C23_OpenRxPipe ==
    (last.op = "open_rx_pipe" /\ last.ret = Some(None))
        => /\ DataWritten(RX_ADDR_P0 + last.args[1])
                = <<AddressBytes(last.args[1], last.args[2])>>
           /\ PipeBit(drv._open_pipes, last.args[1])
           /\ PipeBit(dev.reg[EN_RXADDR], last.args[1])
           /\ (WritesTo(EN_RXADDR) # {})
                <=> ~PipeBit(last.pre.dev.reg[EN_RXADDR], last.args[1])
           /\ last.args[1] # 0 => drv.pipe0_read_addr = last.pre.drv.pipe0_read_addr
           /\ last.args[1] = 0 => drv.pipe0_read_addr = Some(last.args[2])

\* pipe 5 is opened with a five-byte address while pipe 0 has a cached one:
\* one byte is written, the mask is written, the cache stays
C23_Witness ==
    /\ last.op = "open_rx_pipe" /\ last.args = <<5, <<6, 7, 8, 9, 10>> >>
    /\ last.ret = Some(None)
    /\ last.pre.drv.pipe0_read_addr = Some(<<1, 2, 3, 4, 5>>)
    /\ dev.reg[RX_ADDR_P0 + 5] = 10
    /\ dev.reg[EN_RXADDR] = 33
    /\ WritesTo(EN_RXADDR) # {}

\* pipe 1 is opened again with another address: the full address is written,
\* the mask is not
C23_WitnessOpenAgain ==
    /\ last.op = "open_rx_pipe" /\ last.args = <<1, <<6, 7, 8, 9, 10>> >>
    /\ PipeBit(last.pre.dev.reg[EN_RXADDR], 1)
    /\ dev.addr[RX_ADDR_P0 + 1] = <<6, 7, 8, 9, 10>>
    /\ WritesTo(EN_RXADDR) = {}

\* C24: open_tx_pipe(A) always writes A as the TX address; it writes A to
\* pipe 0's RX address register when auto-ack is enabled and leaves pipe 0's
\* RX address register unchanged when auto-ack is disabled; it never changes
\* the cached pipe-0 RX address or the open-pipes mask.
C24_OpenTxPipe ==
    (last.op = "open_tx_pipe" /\ last.ret = Some(None))
        => /\ DataWritten(TX_ADDR) = <<last.args[1]>>
           /\ auto_ack(last.pre) # 0 => DataWritten(RX_ADDR_P0) = <<last.args[1]>>
           /\ auto_ack(last.pre) = 0
                => /\ DataWritten(RX_ADDR_P0) = <<>>
                   /\ dev.addr[RX_ADDR_P0] = last.pre.dev.addr[RX_ADDR_P0]
           /\ drv.pipe0_read_addr = last.pre.drv.pipe0_read_addr
           /\ drv._open_pipes = last.pre.drv._open_pipes
           /\ dev.reg[EN_RXADDR] = last.pre.dev.reg[EN_RXADDR]

\* open_tx_pipe writes pipe 0's RX address exactly when auto-ack is enabled or
\* an ACK payload has been stored by read_ack
C24_OpenTxPipeRx0WhenAckStored ==
    (last.op = "open_tx_pipe" /\ last.ret = Some(None))
        => /\ DataWritten(TX_ADDR) = <<last.args[1]>>
           /\ (auto_ack(last.pre) # 0 \/ last.pre.drv._ack # None)
                => DataWritten(RX_ADDR_P0) = <<last.args[1]>>
           /\ (auto_ack(last.pre) = 0 /\ last.pre.drv._ack = None)
                => /\ DataWritten(RX_ADDR_P0) = <<>>
                   /\ dev.addr[RX_ADDR_P0] = last.pre.dev.addr[RX_ADDR_P0]
           /\ drv.pipe0_read_addr = last.pre.drv.pipe0_read_addr
           /\ drv._open_pipes = last.pre.drv._open_pipes
           /\ dev.reg[EN_RXADDR] = last.pre.dev.reg[EN_RXADDR]

\* open_tx_pipe with auto-ack disabled and no ACK payload stored
C24_WitnessNoAutoAck ==
    /\ last.op = "open_tx_pipe" /\ last.args[1] = <<6, 7, 8, 9, 10>>
    /\ auto_ack(last.pre) = 0 /\ last.pre.drv._ack = None
    /\ last.pre.dev.addr[RX_ADDR_P0] = <<1, 2, 3, 4, 5>>
    /\ dev.addr[RX_ADDR_P0] = <<1, 2, 3, 4, 5>>
    /\ dev.addr[TX_ADDR] = <<6, 7, 8, 9, 10>>

\* bus transaction i of the last operation was a write of `data` to register
\* reg, made with the enable line at `level`
WroteAt(i, reg, data, level) ==
    /\ i \in DOMAIN log
    /\ log[i].cmd = 32 + reg /\ log[i].data = data /\ log[i].ce = level

\* the last bus transaction of the last operation
LastEntry == log[Len(log)]

\* the bus transactions of entering RX mode from where the address of pipe 0
\* is restored, the cached address being `cached` (None or Some(address))
RestoreThenConfig(cached) ==
    IF cached = None
    THEN Len(log) = 4
    ELSE Len(log) = 5 /\ WroteAt(4, RX_ADDR_P0, cached[1], FALSE)

\* C25: entering RX mode (listen = True) performs its steps in this order:
\* flush RX FIFO, clear only the data-ready flag (data-sent and max-retry
\* flags are not cleared), enable line low, write pipe 0's payload width,
\* restore the cached pipe-0 address if one exists, write CONFIG with
\* power-up and RX-role set, and only then raise the enable line; on return
\* the enable line is high and CONFIG has both bits set.
C25_StartListeningOrder ==
    (last.op = "listen" /\ last.args[1])
        => /\ log[1].cmd = FLUSH_RX /\ log[1].ce = last.pre.ce
           /\ WroteAt(2, STATUS, <<64>>, last.pre.ce)
           /\ And(dev.flags, 48) = And(last.pre.dev.flags, 48)
           /\ WroteAt(3, RX_PW_P0, <<last.pre.drv._payload_length>>, FALSE)
           /\ RestoreThenConfig(last.pre.drv.pipe0_read_addr)
           /\ LastEntry.cmd = 32 + CONFIG /\ ~LastEntry.ce
           /\ And(LastEntry.data[1], 3) = 3
           /\ ce
           /\ And(dev.reg[CONFIG], 3) = 3

\* RX mode entered again, from active RX, with data-sent raised and an
\* address cached for pipe 0
C25_Witness ==
    /\ last.op = "listen" /\ last.args[1]
    /\ last.pre.ce /\ And(last.pre.dev.reg[CONFIG], 3) = 3
    /\ And(last.pre.dev.flags, 32) # 0
    /\ last.pre.drv.pipe0_read_addr # None
    /\ Len(log) = 5
    /\ ce

\* RX mode entered from the TX role with no address cached, max-retry raised
C25_WitnessNoCache ==
    /\ last.op = "listen" /\ last.args[1]
    /\ ~last.pre.ce
    /\ And(last.pre.dev.flags, 16) # 0
    /\ last.pre.drv.pipe0_read_addr = None
    /\ Len(log) = 4

\* no transaction of the last operation is one of the commands cmds
NoCommand(cmds) == \A i \in DOMAIN log : log[i].cmd \notin cmds

ListenNow == listen_get(Cur).ret # 0

\* C27: the listen getter is derived, not stored: it is true exactly when the
\* device's CONFIG register, re-read at the time of the call, has both the
\* power-up bit and the RX-role bit set; consequently it is true right after
\* listen = True and false right after listen = False, send, send_fast or
\* power = False.
C27_ListenDerived ==
    /\ last.op = "listen_get"
          => /\ (last.ret # Some(0)) <=> (And(last.pre.dev.reg[CONFIG], 3) = 3)
             /\ log # <<>> /\ log[1].cmd = CONFIG
             /\ NoCommand(32..63)
    /\ (pc = "idle" /\ phase = "ready")
          => (ListenNow <=> And(dev.reg[CONFIG], 3) = 3)
    /\ last.op = "listen" => (ListenNow <=> last.args[1])
    /\ last.op \in {"send", "send_fast"} => ~ListenNow
    /\ (last.op = "power" /\ ~last.args[1]) => ~ListenNow

\* the getter answers true in RX mode and reads CONFIG to do so
C27_Witness ==
    /\ last.op = "listen_get" /\ last.ret = Some(1)
    /\ last.pre.ce
    /\ log[1].cmd = CONFIG

\* the radio is powered down from RX mode: the RX-role bit stays, the getter
\* answers false
C27_WitnessPowerDown ==
    /\ last.op = "power" /\ ~last.args[1]
    /\ And(dev.reg[CONFIG], 3) = 1
    /\ ~ListenNow

\* send returns after it was called in RX mode
C27_WitnessSend ==
    /\ last.op = "send" /\ pc = "idle"
    /\ last.pre.ce
    /\ ~ListenNow

\* the last operation read register reg
ReadsOf(reg) == {i \in DOMAIN log : log[i].cmd = reg}

\* C28: the FIFO_STATUS shadow is never used stale: every decision the
\* driver bases on it (the reuse-TX flag consulted by send_fast, the
\* empty/full answers of fifo()) is preceded, within the same operation, by a
\* read of the FIFO_STATUS register.
C28_FifoShadowRefreshed ==
    /\ last.op = "fifo"
          => /\ log # <<>> /\ log[1].cmd = FIFO_STATUS
             /\ drv._fifo = DevFifoStatus(last.pre.dev)
    /\ last.op = "send_fast" => ReadsOf(FIFO_STATUS) # {}

\* fifo() reads FIFO_STATUS and answers from what it read
C28_FifoReadsFirst ==
    last.op = "fifo"
        => /\ Len(log) = 1 /\ log[1].cmd = FIFO_STATUS
           /\ drv._fifo = DevFifoStatus(last.pre.dev)
           /\ last.ret = Some(fifo_answer([drv |-> [_fifo |-> DevFifoStatus(last.pre.dev)],
                                           ret |-> None],
                                          last.args[1], last.args[2]).ret)

\* send_fast() without a payload takes the shadow's word for the reuse flag
\* although the radio has dropped it since
C28_StaleReuseUsed ==
    /\ last.op = "send_fast" /\ last.args[1] = None
    /\ ~last.pre.dev.reuse
    /\ reuse_tx(last.pre) # 0
    /\ log # <<>>

\* the commands that write a payload to the TX FIFO
PayloadWrites == {W_TX_PAYLOAD, W_TX_PAYLOAD_NO_ACK}

\* the enable line rose once in the last operation, right after a payload
\* write and after every write of CONFIG
RaisedOnceAfterPayload(ups) ==
    /\ Len(ups) = 1
    /\ ups[1] \in DOMAIN log
    /\ log[ups[1]].cmd \in PayloadWrites
    /\ \A i \in WritesTo(CONFIG) : i < ups[1]

FirstOf(cmd) ==
    IF \E i \in DOMAIN log : log[i].cmd = cmd
    THEN CHOOSE i \in DOMAIN log :
            log[i].cmd = cmd /\ \A j \in 1..(i - 1) : log[j].cmd # cmd
    ELSE 0

\* the position in the bus log of the payload write
PayloadWriteAt ==
    IF FirstOf(W_TX_PAYLOAD) # 0 THEN FirstOf(W_TX_PAYLOAD)
    ELSE FirstOf(W_TX_PAYLOAD_NO_ACK)

\* C30: send_fast called with a payload and reuseTX false issues the flush-TX
\* command before writing the payload, so the TX FIFO holds exactly one entry
\* (the new payload) when the enable line is raised; with reuseTX true it
\* issues the reuse-TX-payload command instead and no flush.
C30_SendFastFlushOrReuse ==
    (last.op = "send_fast" /\ last.args[1] # None)
        => /\ PayloadWriteAt # 0
           \* the enable line is set high after the payload write, the last
           \* transaction; that is a rising edge unless the line was high
           /\ PayloadWriteAt = Len(log) /\ ce
           /\ last.ups = IF last.pre.ce THEN <<>> ELSE <<PayloadWriteAt>>
           /\ ~last.args[3]
                => /\ FirstOf(FLUSH_TX) # 0 /\ FirstOf(FLUSH_TX) < PayloadWriteAt
                   /\ FirstOf(REUSE_TX_PL) = 0
                   /\ Len(dev.tx) = 1
                   /\ dev.tx[1].data = log[PayloadWriteAt].data
           /\ last.args[3]
                => /\ FirstOf(REUSE_TX_PL) # 0 /\ FirstOf(REUSE_TX_PL) < PayloadWriteAt
                   /\ FirstOf(FLUSH_TX) = 0

\* send_fast without reuse finds a payload left in the TX FIFO and leaves
\* only the new one
C30_Witness ==
    /\ last.op = "send_fast" /\ last.args[1] # None /\ ~last.args[3]
    /\ last.pre.dev.tx # <<>>
    /\ Len(dev.tx) = 1
    /\ ~last.pre.ce /\ ce

\* send_fast with reuse adds its payload to one left in the TX FIFO
C30_WitnessReuse ==
    /\ last.op = "send_fast" /\ last.args[3]
    /\ Len(last.pre.dev.tx) = 1
    /\ Len(dev.tx) = 2
    /\ FirstOf(REUSE_TX_PL) # 0

\* the bus transactions of the last operation that wrote a payload to the TX
\* FIFO
PayloadWritten == {i \in DOMAIN log : log[i].cmd \in PayloadWrites}

\* C31: send_fast writes the payload with the no-acknowledgment write opcode
\* exactly when AskNoACK is set or auto-ack is disabled, and with the normal
\* write opcode otherwise; exactly one payload write is issued per call.
C31_SendFastOpcode ==
    last.op = "send_fast"
        => /\ Cardinality(PayloadWritten) = 1
           /\ \A i \in PayloadWritten :
                 log[i].cmd = (IF last.args[2] \/ last.pre.dev.reg[EN_AA] = 0
                               THEN W_TX_PAYLOAD_NO_ACK
                               ELSE W_TX_PAYLOAD)
           /\ last.pre.drv._auto_ack = last.pre.dev.reg[EN_AA]

\* send_fast without AskNoACK wrote the payload with the no-acknowledgment
\* opcode because auto-ack is off
C31_Witness ==
    /\ last.op = "send_fast" /\ ~last.args[2]
    /\ last.pre.dev.reg[EN_AA] = 0
    /\ \E i \in PayloadWritten : log[i].cmd = W_TX_PAYLOAD_NO_ACK

\* send_fast wrote the payload with the normal opcode
C31_WitnessAcked ==
    /\ last.op = "send_fast" /\ ~last.args[2]
    /\ last.pre.dev.reg[EN_AA] = 63
    /\ \E i \in PayloadWritten : log[i].cmd = W_TX_PAYLOAD

C32_WitnessCut ==
    /\ last.op = "send_fast" /\ dynamic_payloads(last.pre) = 0
    /\ Len(last.args[1]) = 32 /\ last.pre.drv._payload_length = 2
    /\ log[PayloadWriteAt].data = <<1, 2>>

\* with dynamic payloads a buffer of 32 bytes was written whole
C32_WitnessDynamic ==
    /\ last.op = "send_fast" /\ dynamic_payloads(last.pre) # 0
    /\ last.pre.drv._payload_length = 2
    /\ Len(log[PayloadWriteAt].data) = 32

\* C33: send_fast clears the data-sent and max-retry flags and never the
\* data-ready flag, does so before the payload is written, and raises the
\* enable line only as its last step, after the payload write; it returns with
\* the enable line high.
C33_SendFastFlagsThenPayloadThenEnable ==
    last.op = "send_fast"
        => /\ WritesTo(STATUS) # {}
           /\ \A i \in WritesTo(STATUS) :
                 /\ log[i].data = <<48>>
                 /\ i < PayloadWriteAt
           /\ And(dev.flags, 48) = 0
           /\ And(dev.flags, 64) = And(last.pre.dev.flags, 64)
           \* the line is left as it was until the last transaction is over
           /\ \A i \in DOMAIN log : log[i].ce = last.pre.ce
           /\ PayloadWriteAt = Len(log)
           /\ last.ups = IF last.pre.ce THEN <<>> ELSE <<Len(log)>>
           /\ ce

\* send_fast found the data-ready and data-sent flags raised and the enable
\* line low; it left the data-ready flag raised and the line high
C33_Witness ==
    /\ last.op = "send_fast"
    /\ last.pre.dev.flags = 96 /\ ~last.pre.ce
    /\ dev.flags = 64
    /\ ce /\ last.ups = <<Len(log)>>

\* C34: configuration registers are written only in standby or power-down:
\* for any sequence of public operations, whenever the driver writes CONFIG,
\* SETUP_AW or RF_SETUP the enable line is low.
C34_ConfigWritesWithEnableLow ==
    \A i \in WritesTo(CONFIG) \cup WritesTo(SETUP_AW) \cup WritesTo(RF_SETUP) :
        ~log[i].ce

\* the last operation left the bits `mask` of register reg as they were, in
\* every write it made to the register and in the register as it is now
KeptBits(reg, mask) ==
    /\ And(dev.reg[reg], mask) = And(last.pre.dev.reg[reg], mask)
    /\ \A i \in WritesTo(reg) :
          And(log[i].data[1], mask) = And(last.pre.dev.reg[reg], mask)

\* the last operation assigned the attribute attr
SetOf(attr) == last.op = "set" /\ last.args[1] = attr

\* C35: every read-modify-write changes only the bits the operation owns: arc
\* leaves the retry-delay nibble of SETUP_RETR unchanged and ard leaves the
\* retry-count nibble unchanged; data_rate and pa_level leave each other's
\* RF_SETUP bits unchanged; crc, power, listen = True, listen = False and
\* send_fast each leave unchanged every CONFIG bit among {CRC bits 2-3,
\* interrupt-mask bits 4-6, power-up, RX-role} that is not theirs to set.
C35_OnlyOwnedBitsChange ==
    /\ SetOf("arc") => KeptBits(SETUP_RETR, 240)
    /\ SetOf("ard") => KeptBits(SETUP_RETR, 15)
    /\ SetOf("data_rate") => KeptBits(RF_SETUP, 215)
    /\ SetOf("pa_level") => KeptBits(RF_SETUP, 249)
    /\ SetOf("crc") => KeptBits(CONFIG, 115)
    /\ SetOf("power") => KeptBits(CONFIG, 125)
    /\ (SetOf("listen") /\ last.args[2]) => KeptBits(CONFIG, 124)
    /\ (SetOf("listen") /\ ~last.args[2]) => KeptBits(CONFIG, 126)
    /\ last.op = "send_fast" => KeptBits(CONFIG, 124)

\* crc was set on a radio that listens: the CRC bits changed and the mask,
\* power and role bits did not
C35_Witness ==
    /\ SetOf("crc") /\ WritesTo(CONFIG) # {}
    /\ And(last.pre.dev.reg[CONFIG], 3) = 3
    /\ And(dev.reg[CONFIG], 12) # And(last.pre.dev.reg[CONFIG], 12)
    /\ And(dev.reg[CONFIG], 115) = And(last.pre.dev.reg[CONFIG], 115)

\* send_fast took a listening radio to the TX role and kept the CRC bits
C35_WitnessSendFast ==
    /\ last.op = "send_fast"
    /\ And(last.pre.dev.reg[CONFIG], 3) = 3
    /\ And(dev.reg[CONFIG], 3) = 2
    /\ And(dev.reg[CONFIG], 12) = 12

\* ard was changed from its default and arc kept
C35_WitnessArd ==
    /\ SetOf("ard") /\ WritesTo(SETUP_RETR) # {}
    /\ And(dev.reg[SETUP_RETR], 15) = 3
    /\ And(dev.reg[SETUP_RETR], 240) # And(last.pre.dev.reg[SETUP_RETR], 240)

\* pa_level was changed after data_rate and the data rate kept
C35_WitnessPaLevel ==
    /\ SetOf("pa_level") /\ WritesTo(RF_SETUP) # {}
    /\ And(last.pre.dev.reg[RF_SETUP], 40) # 0
    /\ And(dev.reg[RF_SETUP], 40) = And(last.pre.dev.reg[RF_SETUP], 40)

\* what fifo(tx, empty) would answer if it were called now
FifoNow(tx, empty) == fifo(Cur, tx, Some(empty)).ret

\* C36: the two forms of fifo() agree with each other and with the
\* documentation for every FIFO_STATUS value and both FIFOs: fifo(tx)
\* returning 2 implies fifo(tx, empty=True) is True, and fifo(tx) returning 1
\* implies fifo(tx, empty=False) is True (2 means empty, 1 means full, 0 means
\* neither).
C36_FifoFormsAgree ==
    (last.op = "fifo" /\ last.args[2] = None)
        => /\ last.ret = Some(2) => FifoNow(last.args[1], TRUE) = 1
           /\ last.ret = Some(1) => FifoNow(last.args[1], FALSE) = 1
           /\ last.ret = Some(2)
                <=> (IF last.args[1] THEN dev.tx = <<>> ELSE dev.rx = <<>>)
           /\ last.ret = Some(1)
                <=> Len(IF last.args[1] THEN dev.tx ELSE dev.rx) = FifoDepth

\* the two forms as the code has them: fifo(tx) answers 1 exactly when
\* fifo(tx, empty=True) is True and the FIFO is empty, 2 exactly when
\* fifo(tx, empty=False) is True and the FIFO is full
C36_FifoFormsAsCoded ==
    (last.op = "fifo" /\ last.args[2] = None)
        => /\ last.ret = Some(1) <=> FifoNow(last.args[1], TRUE) = 1
           /\ last.ret = Some(2) <=> FifoNow(last.args[1], FALSE) = 1
           /\ last.ret = Some(1)
                <=> (IF last.args[1] THEN dev.tx = <<>> ELSE dev.rx = <<>>)
           /\ last.ret = Some(2)
                <=> Len(IF last.args[1] THEN dev.tx ELSE dev.rx) = FifoDepth
           /\ last.ret \in {Some(0), Some(1), Some(2)}

\* fifo(True) answered 2 for a full TX FIFO
C36_WitnessFull ==
    /\ last.op = "fifo" /\ last.args = <<TRUE, None>>
    /\ last.ret = Some(2)
    /\ Len(dev.tx) = FifoDepth

\* the last operation assigned auto_ack or dynamic_payloads
FeatureAssigned == last.op \in {"auto_ack", "dynamic_payloads"}

\* C37: every assignment to auto_ack or dynamic_payloads terminates: the
\* mutual calls between the two setters stop after a bounded number of nested
\* calls from every starting combination of auto-ack, DYNPD and FEATURE values
\* and for either requested value.
C37_SettersTerminate ==
    FeatureAssigned
        => /\ last.ret = Some(None)
           /\ last.deep <= 3
           \* each call of a setter begins with a read of FEATURE
           /\ Cardinality(ReadsOf(FEATURE)) = last.deep

\* dynamic_payloads = False went three calls deep: it disabled auto_ack,
\* whose setter assigned dynamic_payloads again
C37_Witness ==
    /\ last.op = "dynamic_payloads" /\ ~last.args[1]
    /\ last.pre.drv._auto_ack = 63
    /\ last.deep = 3
    /\ last.ret = Some(None)

\* auto_ack = True was assigned with auto-ack on, the dynamic-payload flag of
\* FEATURE clear and DYNPD set for pipe 0 alone
C37_WitnessFeatureClear ==
    /\ last.op = "auto_ack" /\ last.args[1]
    /\ last.pre.drv._auto_ack = 63
    /\ last.pre.dev.reg[FEATURE] = 3
    /\ last.pre.dev.reg[DYNPD] = 1
    /\ last.deep = 2

\* C38: after every call of send returns, whatever its arguments and outcome
\* (including read_ack requested, outcome Sent, and no acknowledgment payload
\* waiting in the RX FIFO), the data-sent and max-retry flags are clear in the
\* device's status register.
C38_SendLeavesTxFlagsClear ==
    (pc = "idle" /\ last.op = "send") => And(dev.flags, 48) = 0

\* send leaves the two flags clear unless it was asked for the ACK payload,
\* the packet was sent, and no payload is in the RX FIFO: then data-sent
\* stays raised
C38_FlagsClearUnlessAckAsked ==
    (pc = "idle" /\ last.op = "send")
        => IF snd.read_ack /\ snd.result = 1 /\ last.pre.rx = <<>>
           THEN And(dev.flags, 32) = 32
           ELSE And(dev.flags, 48) = 0

\* send returned 1 with the data-sent flag still raised
C38_WitnessFlagLeft ==
    /\ pc = "idle" /\ last.op = "send"
    /\ last.ret = Some(1) /\ snd.read_ack
    /\ And(dev.flags, 32) = 32


\* the call recorded in c is an open_rx_pipe (op "open_rx_pipe") or a
\* close_rx_pipe on pipe p that returned
PipeOpWas(c, op, p) == c.op = op /\ c.ret = Some(None) /\ c.args[1] = p

\* the call recorded in c is an open or a close of pipe p that returned
OnPipe(c, p) == PipeOpWas(c, "open_rx_pipe", p) \/ PipeOpWas(c, "close_rx_pipe", p)

\* C39: after initialisation and any sequence of open_rx_pipe, close_rx_pipe
\* and open_tx_pipe calls, the shadow open-pipes mask equals the device's
\* EN_RXADDR register, and bit p of it is set exactly when the most recent
\* open_rx_pipe/close_rx_pipe call on pipe p was an open.  The second part is
\* stated call by call: construction leaves every bit clear, an open of pipe
\* p leaves bit p set, a close leaves it clear, and any other call leaves it
\* as it was; and, for the histories of at most two calls, outright.
C39_OpenPipesMaskTracked ==
    phase = "ready"
        => /\ drv._open_pipes = dev.reg[EN_RXADDR]
           /\ last.op = "__init__" => drv._open_pipes = 0
           /\ \A p \in 0..5 :
                /\ PipeOpWas(last, "open_rx_pipe", p) => PipeBit(drv._open_pipes, p)
                /\ PipeOpWas(last, "close_rx_pipe", p) => ~PipeBit(drv._open_pipes, p)
                /\ (Calls >= 1 /\ ~OnPipe(last, p))
                     => (PipeBit(drv._open_pipes, p)
                           <=> PipeBit(last.pre.drv._open_pipes, p))
                /\ (Calls \in 1..2)
                     => (PipeBit(drv._open_pipes, p)
                           <=> \/ PipeOpWas(last, "open_rx_pipe", p)
                               \/ /\ ~OnPipe(last, p)
                                  /\ PipeOpWas(last.prev, "open_rx_pipe", p))

\* pipe 0 was opened and pipe 5 after it: both bits are set in the shadow and
\* in the register
C39_Witness ==
    /\ phase = "ready"
    /\ PipeOpWas(last, "open_rx_pipe", 5)
    /\ PipeOpWas(last.prev, "open_rx_pipe", 0)
    /\ drv._open_pipes = 33
    /\ dev.reg[EN_RXADDR] = 33

\* pipe 1 was opened and closed again
C39_WitnessClosed ==
    /\ phase = "ready"
    /\ PipeOpWas(last, "close_rx_pipe", 1)
    /\ PipeOpWas(last.prev, "open_rx_pipe", 1)
    /\ drv._open_pipes = 0
    /\ dev.reg[EN_RXADDR] = 0

\* pipe 1 was opened and open_tx_pipe called after it: the bit stays
C39_WitnessTxPipe ==
    /\ phase = "ready"
    /\ last.op = "open_tx_pipe"
    /\ PipeOpWas(last.prev, "open_rx_pipe", 1)
    /\ drv._open_pipes = 2
    /\ dev.reg[EN_RXADDR] = 2


\* C40: for any sequence of send and send_fast calls with any reUseTX
\* arguments and any transmission outcomes, the driver never writes a payload
\* into a TX FIFO that already holds three entries: the status byte the radio
\* shifts out while a payload write is clocked in never has TX_FULL set.
C40_NoWriteToFullTxFifo ==
    \A i \in DOMAIN log : log[i].cmd \in PayloadWrites => And(log[i].st, 1) = 0

\* a payload write follows REUSE_TX_PL, not FLUSH_TX, exactly when reUseTX is
\* given, and the TX FIFO is full at the write only then
C40_FullOnlyOnReuse ==
    (last.op = "send_fast" /\ last.ret = Some(None))
        => /\ last.args[3] <=> (\E i \in DOMAIN log : log[i].cmd = REUSE_TX_PL)
           /\ ~last.args[3] <=> (\E i \in DOMAIN log : log[i].cmd = FLUSH_TX)
           /\ ~last.args[3] => C40_NoWriteToFullTxFifo

\* send_fast with reUseTX given finds three payloads in the TX FIFO, keeps
\* them, and writes its payload
C40_WitnessFull ==
    /\ last.op = "send_fast" /\ last.ret = Some(None) /\ last.args[3]
    /\ Len(last.pre.dev.tx) = FifoDepth
    /\ Len(dev.tx) = FifoDepth
    /\ \E i \in DOMAIN log : log[i].cmd \in PayloadWrites /\ And(log[i].st, 1) = 1

====
